---------------------------- MODULE Spec2Model ----------------------------
(***************************************************************************)
(* Radarplot: the calculation engine (useRadarCalculations), the vector    *)
(* kernel (vectorMath, radarConstants) and the Pinia store (radarStore)    *)
(* that drives them.                                                       *)
(*                                                                         *)
(* Numbers.  The program computes in IEEE doubles; TLC has integers only.  *)
(* Every real quantity is therefore kept in fixed point:                   *)
(*   lengths and speeds   in 1/NM     of a nautical mile / knot,           *)
(*   angles               in 1/DEG    of a degree,                         *)
(*   times                in 1/MINUTE of a minute,                         *)
(*   sines and cosines    in 1/TRIG.                                       *)
(* Every operation rounds to the nearest unit.  A statement that the       *)
(* program makes about two reals being equal is stated here up to a        *)
(* tolerance that is named where it is used.                               *)
(***************************************************************************)
EXTENDS Integers, Sequences, FiniteSets, TLC

\* Fixed-point resolutions (units per nautical mile / knot, degree, minute, 1.0)
NM == 10 * 10 * 10
DEG == 10 * 10
MINUTE == 10 * 10
TRIG == 10 * 10 * 10 * 10

\* Largest machine integer of the checker; products are kept below it
MAXINT == 2 * 1073741823 + 1

(***************************************************************************)
(* Integer helpers for the fixed-point arithmetic                          *)
(***************************************************************************)
\* const name = val; body
Let(val, Body(_)) == Body(val)

\* Statements in sequence: val is computed before the body runs
Then(val, Body(_)) == CHOOSE result \in {Body(done) : done \in {v \in {val} : v = v}} : TRUE

Abs(a) == IF a < 0 THEN -a ELSE a

Sgn(a) == IF a < 0 THEN -1 ELSE IF a > 0 THEN 1 ELSE 0

Min(a, b) == IF a < b THEN a ELSE b

Max(a, b) == IF a > b THEN a ELSE b

\* <<q, r>> with a * b = q * c + r and 0 <= r < c, for 0 <= a < c, b >= 0 and
\* 2 <= k <= MAXINT / (2 * c): the digits of b in radix k are taken one at a time, so
\* that no intermediate value exceeds MAXINT
RECURSIVE UMulDivQR(_, _, _, _)
UMulDivQR(a, b, c, k) ==
  IF b = 0 THEN <<0, 0>>
  ELSE LET h == UMulDivQR(a, b \div k, c, k)
           n == k * h[2] + (b % k) * a
       IN  <<k * h[1] + n \div c, n % c>>

\* <<q, r>> with a * b = q * c + r and 0 <= r < c, for a, b >= 0 and 0 < c < 2^29,
\* where a * b itself exceeds MAXINT
LongMulDiv(a, b, c) ==
  LET h == UMulDivQR(a % c, b, c, MAXINT \div (2 * c))
  IN  <<(a \div c) * b + h[1], h[2]>>

\* a * b / c rounded to the nearest integer (half away from zero), c # 0
MulDiv(a, b, c) ==
  LET ua == Abs(a)
      ub == Abs(b)
      uc == Abs(c)
      s  == Sgn(a) * Sgn(b) * Sgn(c) IN
  Let(      IF ub = 0 \/ ua <= MAXINT \div ub
            THEN <<(ua * ub) \div uc, (ua * ub) % uc>>
            ELSE LongMulDiv(ua, ub, uc), LAMBDA qr :
      s * (qr[1] + (IF qr[2] >= uc - qr[2] THEN 1 ELSE 0)))

\* a / b rounded to the nearest integer
RoundDiv(a, b) == MulDiv(a, 1, b)

\* How many of from + step, from + 2 * step, ..., from + 9 * step lie within hi and
\* satisfy P, for a P that holds up to some point and fails beyond it
Digit(P(_), from, step, hi) ==
  Cardinality({k \in 1..9 : from + k * step <= hi /\ P(from + k * step)})

\* Largest t in from..hi with P(t), one decimal digit at a time from the digit worth
\* step down to the units (P(from) is given)
RECURSIVE Largest(_, _, _, _)
Largest(P(_), from, step, hi) ==
  IF step = 0 THEN from
  ELSE Largest(P, from + step * Digit(P, from, step, hi), step \div 10, hi)

\* Math.sqrt on integers: the nearest integer to the square root of n >= 0
Sqrt(n) ==
  Let(Largest(LAMBDA r : r * r <= n, 0, 10000, 46340), LAMBDA s :
      IF n - s * s > s THEN s + 1 ELSE s)

(***************************************************************************)
(* Trigonometry in degrees: Math.sin / Math.cos / Math.atan2 / Math.asin   *)
(* composed with degToRad / radToDeg (radarConstants.ts)                   *)
(***************************************************************************)
\* sin(k degrees) * TRIG for k = 0..90
SinTab ==
  << 0, 175, 349, 523, 698, 872, 1045, 1219, 1392, 1564, 1736, 1908, 2079,
     2250, 2419, 2588, 2756, 2924, 3090, 3256, 3420, 3584, 3746, 3907, 4067, 4226,
     4384, 4540, 4695, 4848, 5000, 5150, 5299, 5446, 5592, 5736, 5878, 6018, 6157,
     6293, 6428, 6561, 6691, 6820, 6947, 7071, 7193, 7314, 7431, 7547, 7660, 7771,
     7880, 7986, 8090, 8192, 8290, 8387, 8480, 8572, 8660, 8746, 8829, 8910, 8988,
     9063, 9135, 9205, 9272, 9336, 9397, 9455, 9511, 9563, 9613, 9659, 9703, 9744,
     9781, 9816, 9848, 9877, 9903, 9925, 9945, 9962, 9976, 9986, 9994, 9998, 10000 >>

\* The value at k + f / DEG degrees of a table of rising whole-degree values, rounded
\* to the nearest integer
Interpolate(tab, k, f) ==
  IF f = 0 THEN tab[k + 1]
  ELSE tab[k + 1] + (2 * (tab[k + 2] - tab[k + 1]) * f + DEG) \div (2 * DEG)

\* sin of a first-quadrant angle 0..90 degrees, interpolated between whole degrees
SinQ(a) == Interpolate(SinTab, a \div DEG, a % DEG)

\* Math.sin(degToRad(a))
SinDeg(a) ==
  LET n == a % (360 * DEG)
      h == n % (180 * DEG)
  IN  (IF n <= 180 * DEG THEN 1 ELSE -1)
        * SinQ(IF h <= 90 * DEG THEN h ELSE 180 * DEG - h)

\* Math.cos(degToRad(a))
CosDeg(a) == SinDeg(a + 90 * DEG)

\* The divisor that brings a magnitude d under MAXINT / TRIG, so that d * TRIG fits
Shrink(d) == d \div (MAXINT \div (2 * TRIG)) + 1

\* tan(t) <= n / d, where sin[u] is the sine of u for u = t and its complement
TanAtMost(sin, t, n, d) == sin[t] * d <= sin[90 * DEG - t] * n

\* n / d is nearer to tan(t + 1) than to tan(t), where sin[u] is the sine of u
NearerNext(sin, t, n, d) == sin[90 * DEG - t] * n * 2 >= (sin[t] + sin[t + 1]) * d

\* Math.atan of n / d in degrees, for 0 <= n <= d, d > 0: the nearest of the two
\* grid angles around it
AtanRatio(n, d) ==
  Let(Shrink(d), LAMBDA k :
  LET nn == n \div k
      dd == d \div k IN
  Let(Largest(LAMBDA a : TanAtMost([u \in {a, 90 * DEG - a} |-> SinQ(u)], a, nn, dd),
              0, 10 * DEG, 45 * DEG), LAMBDA t :
      IF t < 45 * DEG
         /\ NearerNext([u \in {t, t + 1, 90 * DEG - t} |-> SinQ(u)], t, nn, dd)
      THEN t + 1 ELSE t))

\* radToDeg(Math.atan2(y, x)), in (-180, 180] degrees; atan2(0, 0) = 0
Atan2Deg(y, x) ==
  LET ax == Abs(x)
      ay == Abs(y) IN
  Let(IF ax = 0 /\ ay = 0 THEN 0 ELSE AtanRatio(Min(ax, ay), Max(ax, ay)), LAMBDA r :
  LET t == IF ax >= ay THEN r ELSE 90 * DEG - r IN
      IF x >= 0 /\ y >= 0 THEN t
      ELSE IF x < 0 /\ y >= 0 THEN 180 * DEG - t
      ELSE IF x < 0 THEN t - 180 * DEG
      ELSE -t)

\* radToDeg(Math.asin(n / d)) for 0 <= n <= d, d > 0
AsinDeg(n, d) ==
  Let(Shrink(d), LAMBDA k :
      Largest(LAMBDA a : SinQ(a) * (d \div k) <= (n \div k) * TRIG,
              0, 10 * DEG, 90 * DEG))

(***************************************************************************)
(* radarConstants.ts                                                       *)
(***************************************************************************)
\* Number of targets that can be tracked simultaneously
RADAR_NR_TARGETS == 5

\* Epsilon for floating-point comparisons (1e-12): the smallest positive
\* quantity of the fixed-point grid
EPSILON == 1

normalizeAngle(angle) == angle % (360 * DEG)

normalizeAngleSigned(angle) ==
  LET normalized == normalizeAngle(angle)
  IN  IF normalized > 180 * DEG THEN normalized - 360 * DEG ELSE normalized

isZero(value) == Abs(value) < EPSILON

(***************************************************************************)
(* Absent values: undefined / null of the program                          *)
(***************************************************************************)
None == << >>

Some(v) == << v >>

\* value || dflt for a possibly absent number or point
OrElse(m, dflt) == IF m = None THEN dflt ELSE m[1]

(***************************************************************************)
(* vectorMath.ts                                                           *)
(***************************************************************************)
Vec(a, b) == [x |-> a, y |-> b]

Origin == Vec(0, 0)

vectorAdd(v1, v2) == Vec(v1.x + v2.x, v1.y + v2.y)

vectorSubtract(v1, v2) == Vec(v1.x - v2.x, v1.y - v2.y)

\* v * (num / den)
vectorScale(v, num, den) == Vec(MulDiv(v.x, num, den), MulDiv(v.y, num, den))

vectorMagnitude(v) ==
  LET k == Max(Abs(v.x), Abs(v.y)) \div 32768 + 1
  IN  IF k = 1 THEN Sqrt(v.x * v.x + v.y * v.y)
      ELSE k * Sqrt((v.x \div k) * (v.x \div k) + (v.y \div k) * (v.y \div k))

\* v1 . v2, in the product of the two operands' units
dotProduct(v1, v2) == v1.x * v2.x + v1.y * v2.y

\* z-component of v1 x v2, in the product of the two operands' units
crossProduct(v1, v2) == v1.x * v2.y - v1.y * v2.x

\* { x: c[0], y: c[1] }
XY(c) == Vec(c[0], c[1])

\* x = distance * cos(angle), y = distance * sin(angle); cos(angle) = sin(angle + 90)
polarToCartesian(bearing, distance) ==
  LET angle == 90 * DEG - bearing
  IN  XY([axis \in 0..1 |->
            MulDiv(distance, SinDeg(angle + (1 - axis) * 90 * DEG), TRIG)])

cartesianToPolar(v) ==
  Let(vectorMagnitude(v), LAMBDA distance :
      IF distance < EPSILON THEN [bearing |-> 0, distance |-> 0]
      ELSE [bearing  |-> normalizeAngle(90 * DEG - Atan2Deg(v.y, v.x)),
            distance |-> distance])

\* The unit vector polarToCartesian(bearing, 1.0), in 1/TRIG
UnitDir(bearing) == polarToCartesian(bearing, TRIG)

\* dotProduct(v, polarToCartesian(bearing, 1.0)): the length of v along bearing
Project(v, bearing) ==
  Let(UnitDir(bearing), LAMBDA dir :
      MulDiv(v.x, dir.x, TRIG) + MulDiv(v.y, dir.y, TRIG))

\* Intersection of the infinite lines v1_0-v1_1 and v2_0-v2_1, None when parallel
infiniteLinesIntersect(v1_0, v1_1, v2_0, v2_1) ==
  LET d1   == vectorSubtract(v1_1, v1_0)
      d2   == vectorSubtract(v2_1, v2_0) IN
  Let(crossProduct(d1, d2), LAMBDA det :
  LET diff == vectorSubtract(v2_0, v1_0) IN
  Let(crossProduct(diff, d2), LAMBDA num :
      IF Abs(det) < EPSILON THEN None
      ELSE Some(Vec(v1_0.x + MulDiv(num, d1.x, det), v1_0.y + MulDiv(num, d1.y, det)))))

(***************************************************************************)
(* useRadarCalculations.ts: relative motion, true motion, CPA, bow crossing *)
(***************************************************************************)
\* calculateRelativeMotion with the speed in miles per minute
calculateRelativeMotion_PerMinute(pos1, pos2, deltaTime) ==
  IF deltaTime <= 0 \/ isZero(deltaTime) THEN None
  ELSE Let(cartesianToPolar(vectorSubtract(pos2, pos1)), LAMBDA polar :
           Some([KBr |-> polar.bearing,
                 vBr |-> MulDiv(polar.distance, MINUTE, deltaTime)]))

\* { KBr, vBr } from two observations deltaTime apart, None when deltaTime <= 0
calculateRelativeMotion(pos1, pos2, deltaTime) ==
  IF deltaTime <= 0 \/ isZero(deltaTime) THEN None
  ELSE Let(cartesianToPolar(vectorSubtract(pos2, pos1)), LAMBDA polar :
           Some([KBr |-> polar.bearing,
                 vBr |-> MulDiv(polar.distance, 60 * MINUTE, deltaTime)]))

\* { KB, vB, aspect }: true motion = relative motion + own motion
calculateTrueMotion(KBr, vBr, ownCourse, ownSpeed) ==
  Let(polarToCartesian(KBr, vBr), LAMBDA relativeVec :
  Let(polarToCartesian(ownCourse, ownSpeed), LAMBDA ownVec :
  Let(cartesianToPolar(vectorAdd(relativeVec, ownVec)), LAMBDA polar :
  LET reciprocalBearing == normalizeAngle(ownCourse + 180 * DEG)
  IN  [KB     |-> polar.bearing,
       vB     |-> polar.distance,
       aspect |-> normalizeAngle(polar.bearing - reciprocalBearing)])))

\* calculateCPA that steps from currentPos against the relative motion
calculateCPA_SteppedBack(currentPos, KBr, vBr, ownCourse, currentTime) ==
  IF isZero(vBr) THEN None
  ELSE Let(UnitDir(KBr), LAMBDA relativeDir :
       LET toOwn       == vectorSubtract(Origin, currentPos) IN
       Let(Project(toOwn, KBr), LAMBDA projection :
       Let(vectorSubtract(currentPos, vectorScale(relativeDir, projection, TRIG)), LAMBDA cpaPoint :
       Let(MulDiv(projection, 60 * MINUTE, vBr), LAMBDA TCPA :
       Let(cartesianToPolar(cpaPoint).bearing, LAMBDA PCPA :
           IF projection < -EPSILON THEN None
           ELSE Some([CPA      |-> vectorMagnitude(cpaPoint),
                      TCPA     |-> TCPA,
                      tCPA     |-> currentTime + TCPA,
                      PCPA     |-> PCPA,
                      SPCPA    |-> normalizeAngle(PCPA - ownCourse),
                      cpaPoint |-> cpaPoint]))))))

\* CPA data from currentPos along (KBr, vBr), None when vBr is zero or the CPA is past
calculateCPA(currentPos, KBr, vBr, ownCourse, currentTime) ==
  IF isZero(vBr) THEN None
  ELSE Let(UnitDir(KBr), LAMBDA relativeDir :
       LET toOwn       == vectorSubtract(Origin, currentPos) IN
       Let(Project(toOwn, KBr), LAMBDA projection :
       Let(vectorAdd(currentPos, vectorScale(relativeDir, projection, TRIG)), LAMBDA cpaPoint :
       Let(MulDiv(projection, 60 * MINUTE, vBr), LAMBDA TCPA :
       Let(cartesianToPolar(cpaPoint).bearing, LAMBDA PCPA :
           IF projection < -EPSILON THEN None
           ELSE Some([CPA      |-> vectorMagnitude(cpaPoint),
                      TCPA     |-> TCPA,
                      tCPA     |-> currentTime + TCPA,
                      PCPA     |-> PCPA,
                      SPCPA    |-> normalizeAngle(PCPA - ownCourse),
                      cpaPoint |-> cpaPoint]))))))

\* The length by which the heading line and the relative-motion line are extended
\* to fix their second points (the program extends by 100 nm; the lines are infinite)
LineReach == 10 * NM

\* calculateBowCrossing that also reports a crossing the target has already made
calculateBowCrossing_PastCrossingReported(currentPos, KBr, vBr, ownCourse, currentTime) ==
  IF isZero(vBr) THEN None
  ELSE Let(polarToCartesian(ownCourse, LineReach), LAMBDA headingDir :
       Let(vectorAdd(currentPos, polarToCartesian(KBr, LineReach)), LAMBDA targetFuture :
       Let(infiniteLinesIntersect(Origin, headingDir, currentPos, targetFuture), LAMBDA cross :
           IF cross = None THEN None
           ELSE LET crossPoint       == cross[1]
                    toCross          == vectorSubtract(crossPoint, Origin) IN
                Let(Project(toCross, ownCourse), LAMBDA projection :
                LET targetToCross    == vectorSubtract(crossPoint, currentPos) IN
                Let(Project(targetToCross, KBr), LAMBDA targetProjection :
                Let(MulDiv(vectorMagnitude(targetToCross), 60 * MINUTE, vBr), LAMBDA BCT :
                    IF projection < EPSILON THEN None
                    ELSE Some([BCR        |-> vectorMagnitude(toCross),
                               BCT        |-> BCT,
                               BCt        |-> currentTime + BCT,
                               crossPoint |-> crossPoint])))))))

\* BCR / BCT data, None when the target does not cross ahead in its future
calculateBowCrossing(currentPos, KBr, vBr, ownCourse, currentTime) ==
  IF isZero(vBr) THEN None
  ELSE Let(polarToCartesian(ownCourse, LineReach), LAMBDA headingDir :
       Let(vectorAdd(currentPos, polarToCartesian(KBr, LineReach)), LAMBDA targetFuture :
       Let(infiniteLinesIntersect(Origin, headingDir, currentPos, targetFuture), LAMBDA cross :
           IF cross = None THEN None
           ELSE LET crossPoint       == cross[1]
                    toCross          == vectorSubtract(crossPoint, Origin) IN
                Let(Project(toCross, ownCourse), LAMBDA projection :
                LET targetToCross    == vectorSubtract(crossPoint, currentPos) IN
                Let(Project(targetToCross, KBr), LAMBDA targetProjection :
                Let(MulDiv(vectorMagnitude(targetToCross), 60 * MINUTE, vBr), LAMBDA BCT :
                    IF projection < EPSILON THEN None
                    ELSE IF targetProjection < EPSILON THEN None
                    ELSE Some([BCR        |-> vectorMagnitude(toCross),
                               BCT        |-> BCT,
                               BCt        |-> currentTime + BCT,
                               crossPoint |-> crossPoint])))))))

(***************************************************************************)
(* The target record (radarStore.ts createEmptyTarget).  The fields the    *)
(* store and the engine never write (index, mtimeRange, mdistance,         *)
(* mbearing, haveProblems, newAspect, p0SubOwn, newCross, vectors, arcs,   *)
(* polys, labels) are left out.  Arrays of two are functions on 0..1.      *)
(***************************************************************************)
Pair(a, b) == (0 :> a) @@ (1 :> b)

createEmptyTarget ==
  [time |-> Pair(0, 0), bearingType |-> Pair("rakrp", "rakrp"), bearing |-> Pair(0, 0),
   bearingCourseOffset |-> Pair(0, 0), distance |-> Pair(0, 0),
   rakrp |-> Pair(0, 0), rasp |-> Pair(0, 0),
   deltaTime |-> 0,
   KBr |-> 0, vBr |-> 0, KB |-> 0, vB |-> 0, aspect |-> 0,
   haveCPA |-> FALSE, CPA |-> 0, PCPA |-> 0, SPCPA |-> 0, TCPA |-> 0, tCPA |-> 0,
   haveCrossing |-> FALSE, BCR |-> 0, BCT |-> 0, BCt |-> 0,
   haveMpoint |-> FALSE,
   haveNewCPA |-> FALSE,
   newKBr |-> 0, newVBr |-> 0, delta |-> 0, newRaSP |-> 0,
   newCPA |-> 0, newPCPA |-> 0, newSPCPA |-> 0, newTCPA |-> 0, newTCPA_clock |-> 0,
   newHaveCrossing |-> FALSE, newBCR |-> 0, newBCT |-> 0, newBCt |-> 0,
   sight |-> Pair(Origin, Origin),
   cpa |-> Origin, cross |-> Origin, mpoint |-> Origin, newCpa |-> Origin, xpoint |-> Origin]

\* Object.assign(target, updates): the fields of updates replace those of target
Assign(target, updates) == updates @@ target

(***************************************************************************)
(* useRadarCalculations.ts: calculateTarget                                *)
(***************************************************************************)
\* The compass bearing (rakrp) and relative bearing (rasp) of observation i
ObservationBearings(target, ownCourse, i) ==
  IF target.bearingType[i] = "rakrp"
  THEN [rakrp |-> normalizeAngle(target.bearing[i]),
        rasp  |-> normalizeAngle(target.bearing[i] - ownCourse)]
  ELSE LET courseAtObservation ==
             normalizeAngle(IF target.bearingCourseOffset[i] # 0
                            THEN target.bearingCourseOffset[i] ELSE ownCourse)
       IN  [rakrp |-> normalizeAngle(target.bearing[i] + courseAtObservation),
            rasp  |-> normalizeAngle(target.bearing[i])]

\* The partial update calculateTarget returns: only the fields it set on its path
calculateTarget(target, ownCourse, ownSpeed) ==
  Let(ObservationBearings(target, ownCourse, 0), LAMBDA b0 :
  Let(ObservationBearings(target, ownCourse, 1), LAMBDA b1 :
  LET bearings  == [rakrp |-> Pair(b0.rakrp, b1.rakrp), rasp |-> Pair(b0.rasp, b1.rasp)]
      deltaTime == target.time[1] - target.time[0] IN
  Let(polarToCartesian(b0.rakrp, target.distance[0]), LAMBDA pos1 :
  Let(polarToCartesian(b1.rakrp, target.distance[1]), LAMBDA pos2 :
  Let(calculateRelativeMotion(pos1, pos2, deltaTime), LAMBDA relMotion :
      IF target.distance[0] <= 0 \/ target.distance[1] <= 0
      THEN [haveCPA |-> FALSE, haveCrossing |-> FALSE] @@ bearings
      ELSE IF deltaTime <= 0
      THEN [deltaTime |-> deltaTime, haveCPA |-> FALSE] @@ bearings
      ELSE IF relMotion = None
      THEN [deltaTime |-> deltaTime, sight |-> Pair(pos1, pos2), haveCPA |-> FALSE] @@ bearings
      ELSE
        LET rel         == relMotion[1] IN
        Let(calculateTrueMotion(rel.KBr, rel.vBr, ownCourse, ownSpeed), LAMBDA trueMotion :
        Let(calculateCPA(pos2, rel.KBr, rel.vBr, ownCourse, target.time[1]), LAMBDA cpaData :
        Let(               calculateBowCrossing(pos2, rel.KBr, rel.vBr, ownCourse,
                                                target.time[1]), LAMBDA bowCrossing :
        LET motion      == [deltaTime |-> deltaTime, sight |-> Pair(pos1, pos2),
                            KBr |-> rel.KBr, vBr |-> rel.vBr,
                            KB |-> trueMotion.KB, vB |-> trueMotion.vB,
                            aspect |-> trueMotion.aspect]
            cpaBlock    == IF cpaData = None THEN [haveCPA |-> FALSE]
                           ELSE [haveCPA |-> TRUE, CPA |-> cpaData[1].CPA,
                                 TCPA |-> cpaData[1].TCPA, tCPA |-> cpaData[1].tCPA,
                                 PCPA |-> cpaData[1].PCPA, SPCPA |-> cpaData[1].SPCPA,
                                 cpa |-> cpaData[1].cpaPoint]
            crossBlock  == IF bowCrossing = None THEN [haveCrossing |-> FALSE]
                           ELSE [haveCrossing |-> TRUE, BCR |-> bowCrossing[1].BCR,
                                 BCT |-> bowCrossing[1].BCT, BCt |-> bowCrossing[1].BCt,
                                 cross |-> bowCrossing[1].crossPoint]
        IN  crossBlock @@ cpaBlock @@ motion @@ bearings))))))))

(***************************************************************************)
(* useRadarCalculations.ts: geometry helpers of the maneuver solver        *)
(***************************************************************************)
\* Math's Infinity: larger than every time the model computes
Infinity == MAXINT

\* Points where the line v0-v1 crosses the circle of radius r about the origin,
\* as a sequence of 0, 1 or 2 points.  The program solves the quadratic in x
\* through the slope m; its roots are the foot of the perpendicular from the
\* origin plus / minus the half chord along the line, the larger x first.
circleLineCrossing(v0, v1, r) ==
  IF Abs(v1.x - v0.x) < EPSILON
  THEN LET discriminant == r * r - v1.x * v1.x
       IN  IF Abs(discriminant) < EPSILON THEN << Vec(v1.x, 0) >>
           ELSE IF discriminant > 0
           THEN Let(Sqrt(discriminant), LAMBDA sqrtD :
                    << Vec(v1.x, sqrtD), Vec(v1.x, -sqrtD) >>)
           ELSE << >>
  ELSE LET d     == vectorSubtract(v1, v0) IN
       Let(vectorMagnitude(d), LAMBDA len :
       Let(RoundDiv(crossProduct(v1, d), len), LAMBDA h :
       Let(RoundDiv(dotProduct(v1, d), len), LAMBDA along :
       Let(Vec(v1.x - MulDiv(along, d.x, len), v1.y - MulDiv(along, d.y, len)), LAMBDA foot :
       LET discriminant == r * r - h * h IN
       Let(Sqrt(discriminant), LAMBDA half :
       LET sx    == Sgn(d.x) IN
       Let(Vec(sx * MulDiv(half, d.x, len), sx * MulDiv(half, d.y, len)), LAMBDA step :
           IF Abs(discriminant) < EPSILON THEN << foot >>
           ELSE IF discriminant > 0
           THEN << vectorAdd(foot, step), vectorSubtract(foot, step) >>
           ELSE << >>))))))

\* Signed minutes from start to end along (course, speed): negative when end lies astern
calculateTravelTime(start, end, course, speed) ==
  IF isZero(speed) THEN Infinity
  ELSE LET delta == vectorSubtract(end, start) IN
       Let(vectorMagnitude(delta), LAMBDA dist :
       Let(Project(delta, course), LAMBDA proj :
       Let(MulDiv(dist, 60 * MINUTE, speed), LAMBDA time :
           IF proj >= 0 THEN time ELSE -time)))

\* current + fraction * (cpa - current), fraction = num / den
advancePosition(current, cpa, num, den) ==
  vectorAdd(current, vectorScale(vectorSubtract(cpa, current), num, den))

\* Intersection of the lines v1_0-v1_1 and v2_0-v2_1 by slope and intercept,
\* None when both are vertical or their slopes are equal
linesCrossing(v1_0, v1_1, v2_0, v2_1) ==
  LET d1 == vectorSubtract(v1_1, v1_0)
      d2 == vectorSubtract(v2_1, v2_0)
  IN  IF Abs(d1.x) < EPSILON /\ Abs(d2.x) < EPSILON THEN None
      ELSE IF Abs(d1.x) < EPSILON
      THEN Some(Vec(v1_1.x, v2_1.y + MulDiv(d2.y, v1_1.x - v2_1.x, d2.x)))
      ELSE IF Abs(d2.x) < EPSILON
      THEN Some(Vec(v2_1.x, v1_1.y + MulDiv(d1.y, v2_1.x - v1_1.x, d1.x)))
      ELSE IF Abs(crossProduct(d1, d2)) < EPSILON THEN None
      ELSE infiniteLinesIntersect(v1_0, v1_1, v2_0, v2_1)

\* Is p inside the bounding box of the segment l0-l1 (tolerance EPSILON * 10)
pointOnLine(l0, l1, p) ==
  LET tolerance == EPSILON * 10
  IN  /\ Min(l0.x, l1.x) - tolerance <= p.x
      /\ p.x <= Max(l0.x, l1.x) + tolerance
      /\ Min(l0.y, l1.y) - tolerance <= p.y
      /\ p.y <= Max(l0.y, l1.y) + tolerance

\* Knots made good from p0 to p1 in deltaTime minutes
calculateSpeed(p0, p1, deltaTime) ==
  MulDiv(vectorMagnitude(vectorSubtract(p1, p0)), 60 * MINUTE, deltaTime)

(***************************************************************************)
(* useRadarCalculations.ts: calculateManeuverFull                          *)
(*                                                                         *)
(* params is the record [target, ownCourse, ownSpeed, maneuverByTime,      *)
(* maneuverTime, maneuverDistance, maneuverType, maneuverByCPA,            *)
(* desiredCPA, newCourse, newSpeed].  The result is a record whose         *)
(* optional properties are None when the program leaves them out.          *)
(***************************************************************************)
\* The result with every optional property absent
EmptyResult ==
  [success |-> FALSE, error |-> None, newCPA |-> None,
   requiredCourse |-> None, requiredSpeed |-> None,
   mpoint |-> None, newCpaPoint |-> None, xpoint |-> None,
   newKBr |-> None, newVBr |-> None,
   newTCPA |-> None, newPCPA |-> None, newSPCPA |-> None, newTCPA_clock |-> None,
   delta |-> None, newRaSP |-> None,
   newHaveCrossing |-> None, newBCR |-> None, newBCT |-> None, newBCt |-> None,
   timeToManeuver |-> None, courseChange |-> None, maneuverDistance |-> None]

\* { success: false, error }
Failure(error) == [EmptyResult EXCEPT !.error = Some(error)]

\* { success: false }
Refusal == EmptyResult

\* CheckPreconditions without the refusal of a desired CPA that is not positive
CheckPreconditions_AnyDesiredCPA(params) ==
  LET hasManeuverTimeInput     == params.maneuverByTime /\ params.maneuverTime > 0
      hasManeuverDistanceInput == ~params.maneuverByTime /\ params.maneuverDistance > 0
  IN  IF ~params.target.haveCPA \/ params.target.vBr <= 0
      THEN Some(Failure("Target has no valid CPA data"))
      ELSE IF ~hasManeuverTimeInput /\ ~hasManeuverDistanceInput THEN Some(Refusal)
      ELSE IF /\ ~params.maneuverByCPA
              /\ \/ params.maneuverType = "course" /\ params.newCourse = params.ownCourse
                 \/ params.maneuverType = "speed" /\ params.newSpeed = params.ownSpeed
      THEN Some(Refusal)
      ELSE None

\* CheckPreconditions asking for a positive desired CPA in the direct mode too
CheckPreconditions_DesiredCPAAlways(params) ==
  LET hasManeuverTimeInput     == params.maneuverByTime /\ params.maneuverTime > 0
      hasManeuverDistanceInput == ~params.maneuverByTime /\ params.maneuverDistance > 0
  IN  IF ~params.target.haveCPA \/ params.target.vBr <= 0
      THEN Some(Failure("Target has no valid CPA data"))
      ELSE IF ~hasManeuverTimeInput /\ ~hasManeuverDistanceInput THEN Some(Refusal)
      ELSE IF params.desiredCPA <= 0 THEN Some(Refusal)
      ELSE IF /\ ~params.maneuverByCPA
              /\ \/ params.maneuverType = "course" /\ params.newCourse = params.ownCourse
                 \/ params.maneuverType = "speed" /\ params.newSpeed = params.ownSpeed
      THEN Some(Refusal)
      ELSE None

\* The early returns on the target's data and on the request, None when all pass
CheckPreconditions(params) ==
  LET hasManeuverTimeInput     == params.maneuverByTime /\ params.maneuverTime > 0
      hasManeuverDistanceInput == ~params.maneuverByTime /\ params.maneuverDistance > 0
  IN  IF ~params.target.haveCPA \/ params.target.vBr <= 0
      THEN Some(Failure("Target has no valid CPA data"))
      ELSE IF ~hasManeuverTimeInput /\ ~hasManeuverDistanceInput THEN Some(Refusal)
      ELSE IF params.maneuverByCPA /\ params.desiredCPA <= 0 THEN Some(Refusal)
      ELSE IF /\ ~params.maneuverByCPA
              /\ \/ params.maneuverType = "course" /\ params.newCourse = params.ownCourse
                 \/ params.maneuverType = "speed" /\ params.newSpeed = params.ownSpeed
      THEN Some(Refusal)
      ELSE None

\* Own ship's travel during the observation interval (l)
OwnDistDuringObs(params) ==
  MulDiv(params.ownSpeed, params.target.deltaTime, 60 * MINUTE)

\* p0_sub_own: the apex of the original velocity triangle
P0SubOwn(params) ==
  LET reverseCourseOrig == normalizeAngle(params.ownCourse + 180 * DEG)
  IN  vectorAdd(params.target.sight[0],
                polarToCartesian(reverseCourseOrig, OwnDistDuringObs(params)))

\* ManeuverPoint taking, of two crossings ahead, the one reached later
ManeuverPoint_LaterCrossing(params) ==
  LET target == params.target
      pos0   == target.sight[0]
      pos1   == target.sight[1]
  IN  IF params.maneuverByTime /\ params.maneuverTime > 0
      THEN LET timeFromObs == params.maneuverTime - target.time[1] IN
           Let(          IF timeFromObs > 0 /\ target.TCPA > 0
                         THEN advancePosition(pos1, target.cpa, timeFromObs, target.TCPA)
                         ELSE pos1, LAMBDA mpoint :
               [error |-> None, mpoint |-> mpoint, mdistance |-> vectorMagnitude(mpoint)])
      ELSE IF params.maneuverDistance > 0
      THEN Let(circleLineCrossing(pos0, pos1, params.maneuverDistance), LAMBDA crossings :
           Let(calculateTravelTime(pos1, crossings[1], target.KBr, target.vBr), LAMBDA t0 :
           Let(calculateTravelTime(pos1, crossings[2], target.KBr, target.vBr), LAMBDA t1 :
           LET found(pt) == [error |-> None, mpoint |-> pt,
                             mdistance |-> params.maneuverDistance]
               lost(msg) == [error |-> Some(msg), mpoint |-> Origin, mdistance |-> 0]
           IN  IF Len(crossings) = 0
               THEN lost("Maneuver distance not achievable - line does not cross circle")
               ELSE IF Len(crossings) = 2
               THEN IF t0 >= -EPSILON /\ t1 >= -EPSILON
                    THEN found(IF t0 < t1 THEN crossings[2] ELSE crossings[1])
                    ELSE IF t0 >= -EPSILON THEN found(crossings[1])
                    ELSE IF t1 >= -EPSILON THEN found(crossings[2])
                    ELSE lost("Maneuver point is in the past")
               ELSE found(crossings[1]))))
      ELSE [error |-> Some("Invalid maneuver parameters"), mpoint |-> Origin, mdistance |-> 0]

\* Step 1: the maneuver point and its distance from the origin, or the error
ManeuverPoint(params) ==
  LET target == params.target
      pos0   == target.sight[0]
      pos1   == target.sight[1]
  IN  IF params.maneuverByTime /\ params.maneuverTime > 0
      THEN LET timeFromObs == params.maneuverTime - target.time[1] IN
           Let(          IF timeFromObs > 0 /\ target.TCPA > 0
                         THEN advancePosition(pos1, target.cpa, timeFromObs, target.TCPA)
                         ELSE pos1, LAMBDA mpoint :
               [error |-> None, mpoint |-> mpoint, mdistance |-> vectorMagnitude(mpoint)])
      ELSE IF params.maneuverDistance > 0
      THEN Let(circleLineCrossing(pos0, pos1, params.maneuverDistance), LAMBDA crossings :
           Let(calculateTravelTime(pos1, crossings[1], target.KBr, target.vBr), LAMBDA t0 :
           Let(calculateTravelTime(pos1, crossings[2], target.KBr, target.vBr), LAMBDA t1 :
           LET found(pt) == [error |-> None, mpoint |-> pt,
                             mdistance |-> params.maneuverDistance]
               lost(msg) == [error |-> Some(msg), mpoint |-> Origin, mdistance |-> 0]
           IN  IF Len(crossings) = 0
               THEN lost("Maneuver distance not achievable - line does not cross circle")
               ELSE IF Len(crossings) = 2
               THEN IF t0 >= -EPSILON /\ t1 >= -EPSILON
                    THEN found(IF t0 < t1 THEN crossings[1] ELSE crossings[2])
                    ELSE IF t0 >= -EPSILON THEN found(crossings[1])
                    ELSE IF t1 >= -EPSILON THEN found(crossings[2])
                    ELSE lost("Maneuver point is in the past")
               ELSE found(crossings[1]))))
      ELSE [error |-> Some("Invalid maneuver parameters"), mpoint |-> Origin, mdistance |-> 0]

\* Step 2: the user gives the course / speed, the program computes the CPA
DirectManeuver(params, mpoint, mdistance) ==
  LET target     == params.target
      pos1       == target.sight[1]
      userCourse == IF params.maneuverType = "course" THEN params.newCourse
                    ELSE params.ownCourse
      userSpeed  == IF params.maneuverType = "speed" THEN params.newSpeed
                    ELSE params.ownSpeed IN
  Let(MulDiv(userSpeed, target.deltaTime, 60 * MINUTE), LAMBDA newL :
  Let(vectorAdd(P0SubOwn(params), polarToCartesian(userCourse, newL)), LAMBDA xpoint :
  Let(cartesianToPolar(vectorSubtract(pos1, xpoint)), LAMBDA polar :
  LET newKBr     == polar.bearing IN
  Let(MulDiv(polar.distance, 60 * MINUTE, target.deltaTime), LAMBDA newVBr :
  Let(SinDeg(newKBr), LAMBDA dirX :
  Let(CosDeg(newKBr), LAMBDA dirY :
  Let(Abs(MulDiv(mpoint.x, dirY, TRIG) - MulDiv(mpoint.y, dirX, TRIG)), LAMBDA calculatedCPA :
  Let(-(MulDiv(mpoint.x, dirX, TRIG) + MulDiv(mpoint.y, dirY, TRIG)), LAMBDA t :
  Let(Vec(mpoint.x + MulDiv(t, dirX, TRIG), mpoint.y + MulDiv(t, dirY, TRIG)), LAMBDA newCpaPoint :
  Let(cartesianToPolar(newCpaPoint).bearing, LAMBDA newPCPA :
  Let(              IF newVBr > 0
                    THEN MulDiv(vectorMagnitude(vectorSubtract(mpoint, newCpaPoint)),
                                60 * MINUTE, newVBr)
                    ELSE 0, LAMBDA newTCPA :
  Let(target.time[1] + RoundDiv(newTCPA, MINUTE) * MINUTE, LAMBDA newTCPA_clock :
  LET newHaveCrossing == Abs(calculatedCPA) < mdistance /\ newVBr > 0
      delta      == IF params.maneuverType = "course"
                    THEN normalizeAngleSigned(userCourse - params.ownCourse)
                    ELSE userSpeed - params.ownSpeed
  IN  [EmptyResult EXCEPT
         !.success         = TRUE,
         !.newCPA          = Some(calculatedCPA),
         !.requiredCourse  = IF params.maneuverType = "course" THEN Some(userCourse) ELSE None,
         !.requiredSpeed   = IF params.maneuverType = "speed" THEN Some(userSpeed) ELSE None,
         !.newKBr          = Some(newKBr),
         !.newVBr          = Some(newVBr),
         !.delta           = Some(delta),
         !.newRaSP         = Some(normalizeAngle(cartesianToPolar(mpoint).bearing - userCourse)),
         !.newTCPA         = Some(newTCPA),
         !.newPCPA         = Some(newPCPA),
         !.newSPCPA        = Some(normalizeAngle(newPCPA - userCourse)),
         !.newTCPA_clock   = Some(newTCPA_clock),
         !.newHaveCrossing = Some(newHaveCrossing),
         !.newBCR          = Some(IF newHaveCrossing THEN calculatedCPA ELSE 0),
         !.newBCT          = Some(IF newHaveCrossing THEN newTCPA ELSE 0),
         !.newBCt          = Some(IF newHaveCrossing THEN newTCPA_clock ELSE 0),
         !.timeToManeuver  = Some(0),
         !.courseChange    = IF params.maneuverType = "course" THEN Some(delta) ELSE None,
         !.maneuverDistance = Some(mdistance)]))))))))))))

\* Tangents with the tangent length taken as the maneuver distance itself
Tangents_FullLength(mpoint, mdistance, desiredCPA) ==
  Let(AsinDeg(desiredCPA, mdistance), LAMBDA alpha :
  Let(cartesianToPolar(vectorScale(mpoint, -1, 1)).bearing, LAMBDA mpointToOrigin :
  LET KBr0           == normalizeAngle(mpointToOrigin + alpha)
      KBr1           == normalizeAngle(mpointToOrigin - alpha) IN
  Let(mdistance, LAMBDA m :
      [m   |-> m,
       kbr |-> Pair(KBr0, KBr1),
       newCpa |-> Pair(vectorAdd(mpoint, polarToCartesian(KBr0, m)),
                       vectorAdd(mpoint, polarToCartesian(KBr1, m)))])))

\* Step 2b: the two tangents from the maneuver point to the circle of radius desiredCPA
Tangents(mpoint, mdistance, desiredCPA) ==
  Let(AsinDeg(desiredCPA, mdistance), LAMBDA alpha :
  Let(cartesianToPolar(vectorScale(mpoint, -1, 1)).bearing, LAMBDA mpointToOrigin :
  LET KBr0           == normalizeAngle(mpointToOrigin + alpha)
      KBr1           == normalizeAngle(mpointToOrigin - alpha) IN
  Let(Sqrt(mdistance * mdistance - desiredCPA * desiredCPA), LAMBDA m :
      [m   |-> m,
       kbr |-> Pair(KBr0, KBr1),
       newCpa |-> Pair(vectorAdd(mpoint, polarToCartesian(KBr0, m)),
                       vectorAdd(mpoint, polarToCartesian(KBr1, m)))])))

\* TurnDirection that prefers STARBOARD wherever the maneuver point bears
TurnDirection_AlwaysStarboard(params, mpoint) == 1

\* Preferred turning direction: PORT (-1) when the maneuver point bears 90..180
\* degrees relative to own course, else STARBOARD (+1)
TurnDirection(params, mpoint) ==
  Let(
        normalizeAngle(cartesianToPolar(mpoint).bearing - params.ownCourse), LAMBDA bearingRelativeToOwnCourse :
      IF bearingRelativeToOwnCourse >= 90 * DEG /\ bearingRelativeToOwnCourse < 180 * DEG
      THEN -1 ELSE 1)

\* SpeedCandidates flagging valid every crossing, on the segment or not
SpeedCandidates_OffSegmentValid(params, tan, i) ==
  LET target   == params.target
      pos0     == target.sight[0]
      pos1     == target.sight[1] IN
  Let(P0SubOwn(params), LAMBDA p0SubOwn :
  Let(vectorSubtract(pos1, polarToCartesian(tan.kbr[i], tan.m)), LAMBDA v0 :
  Let(linesCrossing(p0SubOwn, pos0, pos1, v0), LAMBDA crossing :
      IF crossing = None THEN << >>
      ELSE Let(pointOnLine(p0SubOwn, pos0, crossing[1]), LAMBDA onSegment :
           Let(calculateSpeed(p0SubOwn, crossing[1], target.deltaTime), LAMBDA candidateSpeed :
               << [kbr |-> tan.kbr[i], newCpa |-> tan.newCpa[i], xpoint |-> crossing[1],
                   candidateCourse |-> params.ownCourse, candidateSpeed |-> candidateSpeed,
                   deviation |-> params.ownSpeed - candidateSpeed,
                   solutionValid |-> candidateSpeed >= 0] >>)))))

\* Step 3, speed change: the candidates of tangent i (none or one)
SpeedCandidates(params, tan, i) ==
  LET target   == params.target
      pos0     == target.sight[0]
      pos1     == target.sight[1] IN
  Let(P0SubOwn(params), LAMBDA p0SubOwn :
  Let(vectorSubtract(pos1, polarToCartesian(tan.kbr[i], tan.m)), LAMBDA v0 :
  Let(linesCrossing(p0SubOwn, pos0, pos1, v0), LAMBDA crossing :
      IF crossing = None THEN << >>
      ELSE Let(pointOnLine(p0SubOwn, pos0, crossing[1]), LAMBDA onSegment :
           Let(calculateSpeed(p0SubOwn, crossing[1], target.deltaTime), LAMBDA candidateSpeed :
               << [kbr |-> tan.kbr[i], newCpa |-> tan.newCpa[i], xpoint |-> crossing[1],
                   candidateCourse |-> params.ownCourse, candidateSpeed |-> candidateSpeed,
                   deviation |-> params.ownSpeed - candidateSpeed,
                   solutionValid |-> candidateSpeed >= 0 /\ onSegment] >>)))))

\* Step 3, course change: the candidates of tangent i (none, one or two)
CourseCandidates(params, tan, mpoint, i) ==
  LET pos1      == params.target.sight[1] IN
  Let(P0SubOwn(params), LAMBDA p0SubOwn :
  Let(TurnDirection(params, mpoint), LAMBDA direction :
  LET v0        == vectorSubtract(pos1, p0SubOwn) IN
  Let(             vectorSubtract(vectorSubtract(pos1, polarToCartesian(tan.kbr[i], tan.m)),
                                  p0SubOwn), LAMBDA v1 :
  Let(circleLineCrossing(v0, v1, OwnDistDuringObs(params)), LAMBDA crossings :
  LET candidate(crossing) ==
        LET candidateXpoint == vectorAdd(crossing, p0SubOwn) IN
        Let(
              cartesianToPolar(vectorSubtract(candidateXpoint, p0SubOwn)).bearing, LAMBDA candidateCourse :
        LET deviation == normalizeAngle(direction * (candidateCourse - params.ownCourse))
        IN  [kbr |-> tan.kbr[i], newCpa |-> tan.newCpa[i], xpoint |-> candidateXpoint,
             candidateCourse |-> candidateCourse, candidateSpeed |-> params.ownSpeed,
             deviation |-> deviation, solutionValid |-> deviation <= 180 * DEG])
  IN  [k \in 1..Len(crossings) |-> candidate(crossings[k])]))))

\* The candidates of the first tangent followed by those of the second
BothTangents(found) == found[0] \o found[1]

\* possibleSolutions, in the order the program pushes them
PossibleSolutions(params, tan, mpoint) ==
  BothTangents([i \in 0..1 |->
                  IF params.maneuverType = "speed" THEN SpeedCandidates(params, tan, i)
                  ELSE CourseCandidates(params, tan, mpoint, i)])

\* filter(s => s.solutionValid)
ValidSolutions(solutions) == SelectSeq(solutions, LAMBDA sol : sol.solutionValid)

\* sort((a, b) => a.deviation - b.deviation)[0]: the sort is stable, so the first
\* of the solutions of least deviation
RECURSIVE LeastDeviation(_)
LeastDeviation(solutions) ==
  IF Len(solutions) = 1 THEN solutions[1]
  ELSE Let(LeastDeviation(Tail(solutions)), LAMBDA rest :
           IF solutions[1].deviation <= rest.deviation THEN solutions[1] ELSE rest)

\* The fallback when there is no candidate at all: stop (speed change) or steer
\* toward the maneuver point (course change)
FallbackSolution(params, tan, mpoint) ==
  Let(P0SubOwn(params), LAMBDA p0SubOwn :
      IF params.maneuverType = "speed"
      THEN [kbr |-> tan.kbr[0], newCpa |-> tan.newCpa[0], xpoint |-> p0SubOwn,
            candidateCourse |-> params.ownCourse, candidateSpeed |-> 0,
            deviation |-> params.ownSpeed, solutionValid |-> TRUE]
      ELSE Let(cartesianToPolar(vectorSubtract(mpoint, p0SubOwn)).bearing, LAMBDA toMpointBearing :
           Let(TurnDirection(params, mpoint), LAMBDA direction :
               [kbr |-> tan.kbr[0], newCpa |-> tan.newCpa[0],
                xpoint |-> vectorAdd(p0SubOwn,
                                     polarToCartesian(toMpointBearing, OwnDistDuringObs(params))),
                candidateCourse |-> toMpointBearing, candidateSpeed |-> params.ownSpeed,
                deviation |-> normalizeAngle(direction * (toMpointBearing - params.ownCourse)),
                solutionValid |-> TRUE])))

\* How the selected solution was found: "valid", "invalid" (least deviation among
\* candidates none of which is valid) or "fallback" (no candidate)
SelectionKind(solutions) ==
  IF Len(ValidSolutions(solutions)) > 0 THEN "valid"
  ELSE IF Len(solutions) > 0 THEN "invalid"
  ELSE "fallback"

\* selectedSolution taken by least deviation among all candidates, valid or not
SelectSolution_ValidityIgnored(params, tan, mpoint) ==
  Let(PossibleSolutions(params, tan, mpoint), LAMBDA possibleSolutions :
      IF Len(possibleSolutions) > 0 THEN LeastDeviation(possibleSolutions)
      ELSE FallbackSolution(params, tan, mpoint))

\* selectedSolution
SelectSolution(params, tan, mpoint) ==
  Let(PossibleSolutions(params, tan, mpoint), LAMBDA possibleSolutions :
  Let(ValidSolutions(possibleSolutions), LAMBDA validSolutions :
      IF Len(validSolutions) > 0 THEN LeastDeviation(validSolutions)
      ELSE IF Len(possibleSolutions) > 0 THEN LeastDeviation(possibleSolutions)
      ELSE FallbackSolution(params, tan, mpoint)))

\* The relative motion after the maneuver: target true motion - new own motion
NewRelativeMotion(target, requiredCourse, requiredSpeed) ==
  Let(polarToCartesian(target.KB, target.vB), LAMBDA targetTrueVec :
  Let(polarToCartesian(requiredCourse, requiredSpeed), LAMBDA newOwnMotionVec :
  Let(cartesianToPolar(vectorSubtract(targetTrueVec, newOwnMotionVec)), LAMBDA polar :
      [newKBr |-> polar.bearing, newVBr |-> polar.distance])))

\* Steps 2b..4: the desired CPA is given, the program solves for course or speed
SolveForCPA(params, mpoint, mdistance) ==
  LET target   == params.target IN
  Let(Tangents(mpoint, mdistance, params.desiredCPA), LAMBDA tan :
  Let(SelectSolution(params, tan, mpoint), LAMBDA selected :
  LET requiredCourse == selected.candidateCourse
      requiredSpeed  == selected.candidateSpeed IN
  Let(NewRelativeMotion(target, requiredCourse, requiredSpeed), LAMBDA rel :
  Let(
        IF target.vBr > 0
        THEN MulDiv(cartesianToPolar(vectorSubtract(mpoint, target.sight[1])).distance,
                    60 * MINUTE, target.vBr)
        ELSE 0, LAMBDA timeToManeuver :
  LET maneuverClockTime == target.time[1] + timeToManeuver IN
  Let(                  calculateCPA(mpoint, rel.newKBr, rel.newVBr, requiredCourse,
                                     maneuverClockTime), LAMBDA cpaFromMpoint :
  Let(                  calculateBowCrossing(mpoint, rel.newKBr, rel.newVBr, requiredCourse,
                                             maneuverClockTime), LAMBDA newBowCrossing :
      [EmptyResult EXCEPT
         !.success         = TRUE,
         !.newCPA          = Some(params.desiredCPA),
         !.requiredCourse  = IF params.maneuverType = "course" THEN Some(requiredCourse)
                             ELSE None,
         !.requiredSpeed   = IF params.maneuverType = "speed" THEN Some(requiredSpeed)
                             ELSE None,
         !.mpoint          = Some(mpoint),
         !.newCpaPoint     = Some(selected.newCpa),
         !.xpoint          = Some(selected.xpoint),
         !.newKBr          = Some(rel.newKBr),
         !.newVBr          = Some(rel.newVBr),
         !.newTCPA         = Some(IF cpaFromMpoint = None THEN 0 ELSE cpaFromMpoint[1].TCPA),
         !.newPCPA         = Some(IF cpaFromMpoint = None THEN 0 ELSE cpaFromMpoint[1].PCPA),
         !.newSPCPA        = Some(IF cpaFromMpoint = None THEN 0 ELSE cpaFromMpoint[1].SPCPA),
         !.newTCPA_clock   = Some(IF cpaFromMpoint = None THEN 0 ELSE cpaFromMpoint[1].tCPA),
         !.delta           = Some(normalizeAngleSigned(rel.newKBr - target.KBr)),
         !.newRaSP         = Some(normalizeAngle(cartesianToPolar(mpoint).bearing
                                                 - requiredCourse)),
         !.newHaveCrossing = Some(newBowCrossing # None),
         !.newBCR          = Some(IF newBowCrossing = None THEN 0 ELSE newBowCrossing[1].BCR),
         !.newBCT          = Some(IF newBowCrossing = None THEN 0 ELSE newBowCrossing[1].BCT),
         !.newBCt          = Some(IF newBowCrossing = None THEN 0 ELSE newBowCrossing[1].BCt),
         !.timeToManeuver  = Some(timeToManeuver),
         !.courseChange    = Some(normalizeAngleSigned(requiredCourse - params.ownCourse)),
         !.maneuverDistance = Some(mdistance)]))))))

\* calculateManeuverFull refusing only a desired CPA beyond the maneuver distance
calculateManeuverFull_StrictBound(params) ==
  Let(CheckPreconditions(params), LAMBDA refused :
  Let(ManeuverPoint(params), LAMBDA point :
      IF refused # None THEN refused[1]
      ELSE IF point.error # None THEN Failure(point.error[1])
      ELSE IF ~params.maneuverByCPA
      THEN DirectManeuver(params, point.mpoint, point.mdistance)
      ELSE IF params.desiredCPA > point.mdistance
      THEN Failure("Desired CPA must be less than maneuver distance")
      ELSE SolveForCPA(params, point.mpoint, point.mdistance)))

\* calculateManeuverFull: preconditions, maneuver point, then the direct branch or
\* the CPA-goal branch behind the feasibility check
calculateManeuverFull(params) ==
  Let(CheckPreconditions(params), LAMBDA refused :
  Let(ManeuverPoint(params), LAMBDA point :
      IF refused # None THEN refused[1]
      ELSE IF point.error # None THEN Failure(point.error[1])
      ELSE IF ~params.maneuverByCPA
      THEN DirectManeuver(params, point.mpoint, point.mdistance)
      ELSE IF params.desiredCPA >= point.mdistance - EPSILON
      THEN Failure("Desired CPA must be less than maneuver distance")
      ELSE SolveForCPA(params, point.mpoint, point.mdistance)))

(***************************************************************************)
(* useRadarCalculations: calculateSecondaryTargetCPA.  The store calls it  *)
(* for every secondary target; its body is described by the               *)
(* specification's Step E: the new CPA of a target that keeps its true     *)
(* motion while own ship takes the new course and speed at exactMtime.     *)
(***************************************************************************)
calculateSecondaryTargetCPA(params) ==
  LET target      == params.target
      pos1        == target.sight[1]
      timeFromObs == params.exactMtime - target.time[1] IN
  Let(MulDiv(target.vBr, Max(timeFromObs, 0), 60 * MINUTE), LAMBDA run :
  Let(vectorAdd(pos1, polarToCartesian(target.KBr, run)), LAMBDA mpoint :
  Let(NewRelativeMotion(target, params.newCourse, params.newSpeed), LAMBDA rel :
  Let(               calculateCPA(mpoint, rel.newKBr, rel.newVBr, params.newCourse,
                                  params.exactMtime), LAMBDA cpaData :
  Let(               polarToCartesian(normalizeAngle(params.ownCourse + 180 * DEG),
                                      MulDiv(params.ownSpeed, target.deltaTime, 60 * MINUTE)), LAMBDA reverse :
  Let(               polarToCartesian(params.newCourse,
                                      MulDiv(params.newSpeed, target.deltaTime, 60 * MINUTE)), LAMBDA newOwn :
      [success     |-> TRUE,
       mpoint      |-> Some(mpoint),
       newCpaPoint |-> Some(IF cpaData = None THEN mpoint ELSE cpaData[1].cpaPoint),
       xpoint      |-> Some(vectorAdd(vectorAdd(target.sight[0], reverse), newOwn)),
       newKBr      |-> Some(rel.newKBr),
       newVBr      |-> Some(rel.newVBr),
       newCPA      |-> Some(IF cpaData = None THEN vectorMagnitude(mpoint)
                            ELSE cpaData[1].CPA),
       delta       |-> Some(normalizeAngleSigned(rel.newKBr - target.KBr)),
       newTCPA     |-> Some(IF cpaData = None THEN 0 ELSE cpaData[1].TCPA),
       newPCPA     |-> Some(IF cpaData = None THEN 0 ELSE cpaData[1].PCPA),
       newSPCPA    |-> Some(IF cpaData = None THEN 0 ELSE cpaData[1].SPCPA)]))))))

(***************************************************************************)
(* radarStore.ts: the state of the store.  Of createInitialState the       *)
(* fields that the calculations read or write are kept: own ship, the      *)
(* targets, the maneuver request, the maneuver result and modified.        *)
(***************************************************************************)
TargetIndices == 0 .. (RADAR_NR_TARGETS - 1)

\* maneuverResult: {}
EmptyManeuverResult ==
  [newCPA |-> None, requiredCourse |-> None, requiredSpeed |-> None, error |-> None,
   newKBr |-> None, newVBr |-> None, delta |-> None, newRaSP |-> None,
   newTCPA |-> None, newPCPA |-> None, newSPCPA |-> None, newTCPA_clock |-> None,
   newHaveCrossing |-> None, newBCR |-> None, newBCT |-> None, newBCt |-> None,
   timeToManeuver |-> None, courseChange |-> None, maneuverDistance |-> None]

createInitialState ==
  [ownCourse |-> 0, ownSpeed |-> 0,
   targets |-> [i \in TargetIndices |-> createEmptyTarget],
   maneuverTargetIndex |-> 0,
   maneuverByTime |-> FALSE, maneuverTime |-> 0, maneuverDistance |-> 0,
   maneuverType |-> "course", maneuverByCPA |-> TRUE, desiredCPA |-> 0,
   newCourse |-> 0, newSpeed |-> 0,
   maneuverResult |-> EmptyManeuverResult,
   modified |-> FALSE]

\* The argument the store passes to calculateManeuverFull
ManeuverParams(s, target) ==
  [target |-> target, ownCourse |-> s.ownCourse, ownSpeed |-> s.ownSpeed,
   maneuverByTime |-> s.maneuverByTime, maneuverTime |-> s.maneuverTime,
   maneuverDistance |-> s.maneuverDistance, maneuverType |-> s.maneuverType,
   maneuverByCPA |-> s.maneuverByCPA, desiredCPA |-> s.desiredCPA,
   newCourse |-> s.newCourse, newSpeed |-> s.newSpeed]

\* The maneuverResult the store keeps of a successful result
SolvedManeuverResult(result) ==
  [newCPA |-> result.newCPA, requiredCourse |-> result.requiredCourse,
   requiredSpeed |-> result.requiredSpeed, error |-> result.error,
   newKBr |-> result.newKBr, newVBr |-> result.newVBr, delta |-> result.delta,
   newRaSP |-> result.newRaSP, newTCPA |-> result.newTCPA, newPCPA |-> result.newPCPA,
   newSPCPA |-> result.newSPCPA, newTCPA_clock |-> result.newTCPA_clock,
   newHaveCrossing |-> result.newHaveCrossing, newBCR |-> result.newBCR,
   newBCT |-> result.newBCT, newBCt |-> result.newBCt,
   timeToManeuver |-> result.timeToManeuver, courseChange |-> result.courseChange,
   maneuverDistance |-> result.maneuverDistance]

\* The maneuverResult the store keeps of a failed result: { error } or {}
FailedManeuverResult(result) == [EmptyManeuverResult EXCEPT !.error = result.error]

\* The primary target after a successful result
UpdatePrimaryTarget(target, result) ==
  [target EXCEPT
     !.haveNewCPA = TRUE, !.haveMpoint = TRUE,
     !.mpoint = OrElse(result.mpoint, Origin),
     !.newCpa = OrElse(result.newCpaPoint, Origin),
     !.xpoint = OrElse(result.xpoint, Origin),
     !.newKBr = OrElse(result.newKBr, 0), !.newVBr = OrElse(result.newVBr, 0),
     !.newCPA = OrElse(result.newCPA, 0), !.delta = OrElse(result.delta, 0),
     !.newRaSP = OrElse(result.newRaSP, 0), !.newTCPA = OrElse(result.newTCPA, 0),
     !.newPCPA = OrElse(result.newPCPA, 0), !.newSPCPA = OrElse(result.newSPCPA, 0),
     !.newTCPA_clock = OrElse(result.newTCPA_clock, 0),
     !.newHaveCrossing = OrElse(result.newHaveCrossing, FALSE),
     !.newBCR = OrElse(result.newBCR, 0), !.newBCT = OrElse(result.newBCT, 0),
     !.newBCt = OrElse(result.newBCt, 0)]

\* A secondary target after the maneuver of the primary target was solved
UpdateSecondaryTarget(s, secondaryTarget, newCourse, newSpeed, exactMtime) ==
  IF ~secondaryTarget.haveCPA \/ secondaryTarget.vBr <= 0 THEN secondaryTarget
  ELSE Then(
             calculateSecondaryTargetCPA(
               [target |-> secondaryTarget, ownCourse |-> s.ownCourse,
                ownSpeed |-> s.ownSpeed, newCourse |-> newCourse, newSpeed |-> newSpeed,
                exactMtime |-> exactMtime]), LAMBDA secondaryResult :
           IF ~secondaryResult.success THEN secondaryTarget
           ELSE [secondaryTarget EXCEPT
                   !.haveNewCPA = TRUE, !.haveMpoint = TRUE,
                   !.mpoint = OrElse(secondaryResult.mpoint, Origin),
                   !.newCpa = OrElse(secondaryResult.newCpaPoint, Origin),
                   !.xpoint = OrElse(secondaryResult.xpoint, Origin),
                   !.newKBr = OrElse(secondaryResult.newKBr, 0),
                   !.newVBr = OrElse(secondaryResult.newVBr, 0),
                   !.newCPA = OrElse(secondaryResult.newCPA, 0),
                   !.delta = OrElse(secondaryResult.delta, 0),
                   !.newTCPA = OrElse(secondaryResult.newTCPA, 0),
                   !.newPCPA = OrElse(secondaryResult.newPCPA, 0),
                   !.newSPCPA = OrElse(secondaryResult.newSPCPA, 0)])

(***************************************************************************)
(* radarStore.ts: the actions of the store, each a function from the store *)
(* state s to the store state it leaves                                    *)
(***************************************************************************)
\* calculateManeuver whose solver-failure path leaves the maneuver target flagged
calculateManeuver_FlagsKeptOnFailure(s) ==
  LET m       == s.maneuverTargetIndex
      cleared == [i \in TargetIndices |->
                    IF i # m THEN [s.targets[i] EXCEPT !.haveNewCPA = FALSE,
                                                       !.haveMpoint = FALSE]
                    ELSE s.targets[i]]
      target  == cleared[m] IN
  Then(calculateManeuverFull(ManeuverParams(s, target)), LAMBDA result :
  LET newCourse  == IF result.requiredCourse = None THEN s.ownCourse
                    ELSE result.requiredCourse[1]
      newSpeed   == IF result.requiredSpeed = None THEN s.ownSpeed
                    ELSE result.requiredSpeed[1]
      exactMtime == target.time[1] + OrElse(result.timeToManeuver, 0)
  IN  IF ~target.haveCPA
      THEN [s EXCEPT
              !.maneuverResult = [EmptyManeuverResult EXCEPT
                                    !.error = Some("No valid target data")],
              !.targets = [cleared EXCEPT ![m].haveNewCPA = FALSE]]
      ELSE IF result.success
      THEN [s EXCEPT
              !.maneuverResult = SolvedManeuverResult(result),
              !.targets = [i \in TargetIndices |->
                             IF i = m THEN UpdatePrimaryTarget(target, result)
                             ELSE UpdateSecondaryTarget(s, cleared[i], newCourse, newSpeed,
                                                        exactMtime)],
              !.modified = TRUE]
      ELSE [s EXCEPT
              !.maneuverResult = FailedManeuverResult(result),
              !.targets = cleared,
              !.modified = TRUE])

\* calculateManeuver.  Nothing it calls throws, so its catch block is never entered.
calculateManeuver(s) ==
  LET m       == s.maneuverTargetIndex
      cleared == [i \in TargetIndices |->
                    IF i # m THEN [s.targets[i] EXCEPT !.haveNewCPA = FALSE,
                                                       !.haveMpoint = FALSE]
                    ELSE s.targets[i]]
      target  == cleared[m] IN
  Then(calculateManeuverFull(ManeuverParams(s, target)), LAMBDA result :
  LET newCourse  == IF result.requiredCourse = None THEN s.ownCourse
                    ELSE result.requiredCourse[1]
      newSpeed   == IF result.requiredSpeed = None THEN s.ownSpeed
                    ELSE result.requiredSpeed[1]
      exactMtime == target.time[1] + OrElse(result.timeToManeuver, 0)
  IN  IF ~target.haveCPA
      THEN [s EXCEPT
              !.maneuverResult = [EmptyManeuverResult EXCEPT
                                    !.error = Some("No valid target data")],
              !.targets = [cleared EXCEPT ![m].haveNewCPA = FALSE]]
      ELSE IF result.success
      THEN [s EXCEPT
              !.maneuverResult = SolvedManeuverResult(result),
              !.targets = [i \in TargetIndices |->
                             IF i = m THEN UpdatePrimaryTarget(target, result)
                             ELSE UpdateSecondaryTarget(s, cleared[i], newCourse, newSpeed,
                                                        exactMtime)],
              !.modified = TRUE]
      ELSE [s EXCEPT
              !.maneuverResult = FailedManeuverResult(result),
              !.targets = [cleared EXCEPT ![m].haveNewCPA = FALSE,
                                          ![m].haveMpoint = FALSE],
              !.modified = TRUE])

recalculateTarget(s, index) ==
  Then(calculateTarget(s.targets[index], s.ownCourse, s.ownSpeed), LAMBDA updates :
  Then([s EXCEPT !.targets[index] = Assign(s.targets[index], updates)], LAMBDA applied :
      IF index = s.maneuverTargetIndex THEN calculateManeuver(applied) ELSE applied))

\* for (let i = from; i < RADAR_NR_TARGETS; i++) recalculateTarget(i)
RECURSIVE RecalculateFrom(_, _)
RecalculateFrom(s, from) ==
  IF from >= RADAR_NR_TARGETS THEN s
  ELSE Then(recalculateTarget(s, from), LAMBDA done : RecalculateFrom(done, from + 1))

recalculateAllTargets(s) == RecalculateFrom(s, 0)

resetPlot(s) == createInitialState

setOwnCourse(s, course) ==
  recalculateAllTargets([s EXCEPT !.ownCourse = course, !.modified = TRUE])

setOwnSpeed(s, speed) ==
  recalculateAllTargets([s EXCEPT !.ownSpeed = speed, !.modified = TRUE])

\* data is the partial record of an observation: its absent properties are None
updateTargetObservation(s, targetIndex, observationIndex, data) ==
  IF targetIndex \notin TargetIndices THEN s
  ELSE LET target == s.targets[targetIndex]
           put(field, value) == IF value = None THEN field
                                ELSE [field EXCEPT ![observationIndex] = value[1]]
           edited == [target EXCEPT
                        !.time = put(target.time, data.time),
                        !.bearing = put(target.bearing, data.bearing),
                        !.bearingType = put(target.bearingType, data.bearingType),
                        !.bearingCourseOffset = put(target.bearingCourseOffset,
                                                    data.bearingCourseOffset),
                        !.distance = put(target.distance, data.distance)]
       IN  recalculateTarget([s EXCEPT !.targets[targetIndex] = edited, !.modified = TRUE],
                             targetIndex)

setManeuverTarget(s, index) ==
  IF index >= 0 /\ index < RADAR_NR_TARGETS
  THEN calculateManeuver([s EXCEPT !.maneuverTargetIndex = index])
  ELSE s

setManeuverByTime(s, byTime) == calculateManeuver([s EXCEPT !.maneuverByTime = byTime])

setManeuverType(s, type) == calculateManeuver([s EXCEPT !.maneuverType = type])

setManeuverTime(s, time) == calculateManeuver([s EXCEPT !.maneuverTime = time])

setManeuverDistance(s, distance) ==
  calculateManeuver([s EXCEPT !.maneuverDistance = distance])

setManeuverByCPA(s, byCPA) == calculateManeuver([s EXCEPT !.maneuverByCPA = byCPA])

\* setDesiredCPA that stores the value without solving again
setDesiredCPA_NoSolve(s, cpa) == [s EXCEPT !.desiredCPA = cpa]

setDesiredCPA(s, cpa) == calculateManeuver([s EXCEPT !.desiredCPA = cpa])

setNewCourse(s, course) == calculateManeuver([s EXCEPT !.newCourse = course])

setNewSpeed(s, speed) == calculateManeuver([s EXCEPT !.newSpeed = speed])

\* extractPersistableState: the inputs that are saved
extractPersistableState(s) ==
  [ownCourse |-> s.ownCourse, ownSpeed |-> s.ownSpeed,
   targets |-> [i \in TargetIndices |->
                  [time |-> s.targets[i].time, bearingType |-> s.targets[i].bearingType,
                   bearing |-> s.targets[i].bearing,
                   bearingCourseOffset |-> s.targets[i].bearingCourseOffset,
                   distance |-> s.targets[i].distance]],
   maneuverTargetIndex |-> s.maneuverTargetIndex,
   maneuverByTime |-> s.maneuverByTime, maneuverTime |-> s.maneuverTime,
   maneuverDistance |-> s.maneuverDistance, maneuverType |-> s.maneuverType,
   maneuverByCPA |-> s.maneuverByCPA, desiredCPA |-> s.desiredCPA,
   newCourse |-> s.newCourse, newSpeed |-> s.newSpeed]

\* loadFromStorage, saved being what loadFromLocalStorage returns (None: nothing saved)
loadFromStorage(s, saved) ==
  IF saved = None THEN s
  ELSE LET v == saved[1]
           applied ==
             [s EXCEPT
                !.ownCourse = v.ownCourse, !.ownSpeed = v.ownSpeed,
                !.targets = [i \in TargetIndices |->
                               [s.targets[i] EXCEPT
                                  !.time = v.targets[i].time,
                                  !.bearingType = v.targets[i].bearingType,
                                  !.bearing = v.targets[i].bearing,
                                  !.bearingCourseOffset = v.targets[i].bearingCourseOffset,
                                  !.distance = v.targets[i].distance]],
                !.maneuverTargetIndex = v.maneuverTargetIndex,
                !.maneuverByTime = v.maneuverByTime, !.maneuverTime = v.maneuverTime,
                !.maneuverDistance = v.maneuverDistance, !.maneuverType = v.maneuverType,
                !.maneuverByCPA = v.maneuverByCPA, !.desiredCPA = v.desiredCPA,
                !.newCourse = v.newCourse, !.newSpeed = v.newSpeed]
       IN  [recalculateAllTargets(applied) EXCEPT !.modified = FALSE]

(***************************************************************************)
(* The inputs the user and the saved plots supply                          *)
(***************************************************************************)
\* The number of store actions of a session
MaxOps == 2

\* The saved inputs of a target observed at bearing b0 (degrees), distance d0 (nm),
\* minute t0 and then at b1, d1, t1, both bearings true (rakrp)
SavedTarget(b0, d0, t0, b1, d1, t1) ==
  [time |-> Pair(t0 * MINUTE, t1 * MINUTE), bearingType |-> Pair("rakrp", "rakrp"),
   bearing |-> Pair(b0 * DEG, b1 * DEG), bearingCourseOffset |-> Pair(0, 0),
   distance |-> Pair(d0 * NM, d1 * NM)]

\* Target closing on a steady bearing of 045 degrees: a collision course
SteadyBearingTarget == SavedTarget(45, 10, 0, 45, 8, 6)

\* Target drawing ahead from 045 to 040 degrees: it crosses own ship's bow
BowCrossingTarget == SavedTarget(45, 10, 0, 40, 8, 6)

\* Target dead ahead and closing
HeadOnTarget == SavedTarget(0, 10, 0, 0, 8, 6)

NoTarget == SavedTarget(0, 0, 0, 0, 0, 0)

\* Two tracked targets, own ship at 10 kn on 000, a new course wanted for a CPA of 2 nm
\* at 5 nm from the first target
SavedCourseForCPA ==
  [ownCourse |-> 0, ownSpeed |-> 10 * NM,
   targets |-> [i \in TargetIndices |->
                  IF i = 0 THEN SteadyBearingTarget
                  ELSE IF i = 1 THEN BowCrossingTarget ELSE NoTarget],
   maneuverTargetIndex |-> 0, maneuverByTime |-> FALSE, maneuverTime |-> 0,
   maneuverDistance |-> 5 * NM, maneuverType |-> "course", maneuverByCPA |-> TRUE,
   desiredCPA |-> 2 * NM, newCourse |-> 0, newSpeed |-> 0]

\* The same plot with the new course 060 given and the CPA asked for
SavedCPAFromCourse ==
  [SavedCourseForCPA EXCEPT !.maneuverByCPA = FALSE, !.newCourse = 60 * DEG]

\* Own ship stopped, one target dead ahead, a CPA of 3 nm wanted at 5 nm
SavedStopped ==
  [SavedCourseForCPA EXCEPT
     !.ownSpeed = 0,
     !.targets = [i \in TargetIndices |-> IF i = 0 THEN HeadOnTarget ELSE NoTarget],
     !.desiredCPA = 3 * NM]

\* The first plot with the second target chosen for the maneuver
SavedSecondTarget == [SavedCourseForCPA EXCEPT !.maneuverTargetIndex = 1]

SavedPlots == {SavedCourseForCPA, SavedCPAFromCourse, SavedStopped, SavedSecondTarget}

Courses == {0, 90 * DEG}

Speeds == {0, 10 * NM}

\* The targets whose observations the user edits
EditedTargets == {0, 1}

NoEdit ==
  [time |-> None, bearing |-> None, bearingType |-> None, bearingCourseOffset |-> None,
   distance |-> None]

\* One field of an observation at a time, as the target panel sends them
ObservationEdits ==
  {[NoEdit EXCEPT !.distance = Some(0)],
   [NoEdit EXCEPT !.time = Some(0)],
   [NoEdit EXCEPT !.bearing = Some(60 * DEG)]}

ManeuverTimes == {12 * MINUTE}

ManeuverDistances == {3 * NM, 5 * NM}

DesiredCPAs == {1 * NM, 6 * NM}

NewCourses == {60 * DEG}

NewSpeeds == {5 * NM}

(***************************************************************************)
(* The store as a state machine: one step per store action                 *)
(***************************************************************************)
VARIABLES
  store,    \* the state of the Pinia store
  call,     \* the last action: [op |-> its name, index |-> the target it named]
  ops,      \* the number of actions so far
  request,  \* the solver study: the request put to the calculation engine
  answer    \* the solver study: the engine's phase and results

vars == <<store, call, ops, request, answer>>

Called(op, index) == [op |-> op, index |-> index]

Init ==
  /\ store = createInitialState
  /\ call = Called("createInitialState", 0)
  /\ ops = 0
  /\ request = None
  /\ answer = None

\* One action of the store: its result and its name are recorded
Act(s, op, index) ==
  /\ ops < MaxOps
  /\ store' = s
  /\ call' = Called(op, index)
  /\ ops' = ops + 1
  /\ UNCHANGED <<request, answer>>

ResetPlot == Act(resetPlot(store), "resetPlot", 0)

LoadFromStorage == \E saved \in SavedPlots :
  Act(loadFromStorage(store, Some(saved)), "loadFromStorage", 0)

SetOwnCourse == \E course \in Courses : Act(setOwnCourse(store, course), "setOwnCourse", 0)

SetOwnSpeed == \E speed \in Speeds : Act(setOwnSpeed(store, speed), "setOwnSpeed", 0)

UpdateTargetObservation ==
  \E targetIndex \in EditedTargets, observationIndex \in 0..1, data \in ObservationEdits :
    Act(updateTargetObservation(store, targetIndex, observationIndex, data),
        "updateTargetObservation", targetIndex)

SetManeuverTarget == \E index \in EditedTargets :
  Act(setManeuverTarget(store, index), "setManeuverTarget", index)

SetManeuverByTime == \E byTime \in BOOLEAN :
  Act(setManeuverByTime(store, byTime), "setManeuverByTime", 0)

SetManeuverType == \E type \in {"course", "speed"} :
  Act(setManeuverType(store, type), "setManeuverType", 0)

SetManeuverTime == \E time \in ManeuverTimes :
  Act(setManeuverTime(store, time), "setManeuverTime", 0)

SetManeuverDistance == \E distance \in ManeuverDistances :
  Act(setManeuverDistance(store, distance), "setManeuverDistance", 0)

SetManeuverByCPA == \E byCPA \in BOOLEAN :
  Act(setManeuverByCPA(store, byCPA), "setManeuverByCPA", 0)

SetDesiredCPA == \E cpa \in DesiredCPAs : Act(setDesiredCPA(store, cpa), "setDesiredCPA", 0)

SetNewCourse == \E course \in NewCourses : Act(setNewCourse(store, course), "setNewCourse", 0)

SetNewSpeed == \E speed \in NewSpeeds : Act(setNewSpeed(store, speed), "setNewSpeed", 0)

Next ==
  \/ ResetPlot
  \/ LoadFromStorage
  \/ SetOwnCourse
  \/ SetOwnSpeed
  \/ UpdateTargetObservation
  \/ SetManeuverTarget
  \/ SetManeuverByTime
  \/ SetManeuverType
  \/ SetManeuverTime
  \/ SetManeuverDistance
  \/ SetManeuverByCPA
  \/ SetDesiredCPA
  \/ SetNewCourse
  \/ SetNewSpeed

Spec == Init /\ [][Next]_vars

(***************************************************************************)
(* The calculation engine on its own: a request is drawn from a bounded    *)
(* set, calculateTarget derives the target's motion from its two           *)
(* observations, then calculateManeuverFull answers the request            *)
(***************************************************************************)
\* Target opening on a steady bearing: its CPA lies in the past
OpeningTarget == SavedTarget(45, 8, 0, 45, 10, 6)

\* Both observations at the same minute
SameMinuteTarget == SavedTarget(45, 10, 6, 40, 8, 6)

\* Target closing at 80 kn: its CPA is reached within two minutes of the second
\* observation
FastClosingTarget == SavedTarget(45, 10, 0, 40, 2, 6)

\* Target passing wide: its track stays more than 5 nm from own ship
WidePassingTarget == SavedTarget(90, 10, 0, 80, 9, 6)

\* Target closing from the starboard quarter of a ship heading north
QuarterTarget == SavedTarget(135, 10, 0, 130, 8, 6)

\* Target passing 2.7 nm on one side at own speed and wide on the other side when
\* own ship stops: a CPA of 2 nm is reached at two speeds below own speed
TwoSpeedsTarget == SavedTarget(58, 13, 0, 59, 12, 6)

Observations ==
  {SteadyBearingTarget, BowCrossingTarget, HeadOnTarget, OpeningTarget, SameMinuteTarget,
   FastClosingTarget, WidePassingTarget, QuarterTarget, TwoSpeedsTarget, NoTarget}

\* Own ship as <<course, speed>>
OwnShips == {<<0, 10 * NM>>, <<0, 0>>, <<90 * DEG, 10 * NM>>}

Requests ==
  {[observation |-> o, ownCourse |-> own[1], ownSpeed |-> own[2],
    maneuverByTime |-> byTime, maneuverTime |-> mtime, maneuverDistance |-> mdist,
    maneuverType |-> type, maneuverByCPA |-> byCPA, desiredCPA |-> cpa,
    newCourse |-> course, newSpeed |-> speed] :
      o \in Observations, own \in OwnShips, byTime \in BOOLEAN,
      mtime \in {0, 3 * MINUTE, 12 * MINUTE}, mdist \in {0, 5 * NM},
      type \in {"course", "speed"}, byCPA \in BOOLEAN,
      cpa \in {0, 2 * NM, 5 * NM, 6 * NM},
      course \in {0, 60 * DEG}, speed \in {5 * NM, 10 * NM}}

\* A target with the saved observations and nothing calculated yet
ObservedTarget(saved) ==
  [createEmptyTarget EXCEPT
     !.time = saved.time, !.bearingType = saved.bearingType, !.bearing = saved.bearing,
     !.bearingCourseOffset = saved.bearingCourseOffset, !.distance = saved.distance]

\* The argument of calculateManeuverFull for request r and the calculated target
RequestParams(r, target) ==
  [target |-> target, ownCourse |-> r.ownCourse, ownSpeed |-> r.ownSpeed,
   maneuverByTime |-> r.maneuverByTime, maneuverTime |-> r.maneuverTime,
   maneuverDistance |-> r.maneuverDistance, maneuverType |-> r.maneuverType,
   maneuverByCPA |-> r.maneuverByCPA, desiredCPA |-> r.desiredCPA,
   newCourse |-> r.newCourse, newSpeed |-> r.newSpeed]

SolverInit ==
  /\ request \in {Some(r) : r \in Requests}
  /\ answer = [phase |-> "asked", target |-> ObservedTarget(request[1].observation),
               result |-> EmptyResult]
  /\ store = createInitialState
  /\ call = Called("createInitialState", 0)
  /\ ops = 0

\* calculateTarget and Object.assign, as recalculateTarget applies them
Observe ==
  /\ answer.phase = "asked"
  /\ answer' = [answer EXCEPT
                  !.phase = "observed",
                  !.target = Assign(answer.target,
                                    calculateTarget(answer.target, request[1].ownCourse,
                                                    request[1].ownSpeed))]
  /\ UNCHANGED <<store, call, ops, request>>

\* Solve with a calculateManeuverFull that writes its solution into the target it
\* was passed
Solve_WritesTarget ==
  /\ answer.phase = "observed"
  /\ LET result == calculateManeuverFull(RequestParams(request[1], answer.target))
     IN  answer' = [answer EXCEPT
                      !.phase = "solved",
                      !.result = result,
                      !.target = IF result.success
                                 THEN UpdatePrimaryTarget(answer.target, result)
                                 ELSE answer.target]
  /\ UNCHANGED <<store, call, ops, request>>

Solve ==
  /\ answer.phase = "observed"
  /\ answer' = [answer EXCEPT
                  !.phase = "solved",
                  !.result = calculateManeuverFull(RequestParams(request[1], answer.target))]
  /\ UNCHANGED <<store, call, ops, request>>

SolverNext == Observe \/ Solve

SolverSpec == SolverInit /\ [][SolverNext]_vars

(***************************************************************************)
(* calculateTarget on its own: two observations and own ship are drawn     *)
(* from a grid, then calculateTarget derives the target's motion, CPA and  *)
(* bow crossing from them                                                  *)
(***************************************************************************)
\* The saved inputs of a target whose observation i is sighting[i], a record
\* [type, bearing, offset, distance, time]
Sighted(sighting) ==
  [time |-> [i \in 0..1 |-> sighting[i].time],
   bearingType |-> [i \in 0..1 |-> sighting[i].type],
   bearing |-> [i \in 0..1 |-> sighting[i].bearing],
   bearingCourseOffset |-> [i \in 0..1 |-> sighting[i].offset],
   distance |-> [i \in 0..1 |-> sighting[i].distance]]

\* True bearings: all around the compass, with distances and times that are valid,
\* missing, equal and reversed
TrueSightings ==
  {Sighted(Pair([type |-> "rakrp", bearing |-> b0, offset |-> 0, distance |-> d0,
                 time |-> t[1]],
                [type |-> "rakrp", bearing |-> b1, offset |-> 0, distance |-> d1,
                 time |-> t[2]])) :
     b0 \in {0, 45 * DEG, 90 * DEG, 225 * DEG},
     b1 \in {0, 40 * DEG, 45 * DEG, 90 * DEG, 225 * DEG},
     d0 \in {0, 4 * NM, 8 * NM, 10 * NM}, d1 \in {0, 4 * NM, 8 * NM, 10 * NM},
     t \in {<<0, 6 * MINUTE>>, <<6 * MINUTE, 6 * MINUTE>>, <<6 * MINUTE, 0>>}}

\* The courses captured with a relative bearing: 000, 030 and 359 degrees
CapturedCourses == {0, 30 * DEG, 359 * DEG}

\* Relative bearings at one observation or at both, each with its captured course
RelativeSightings ==
  {Sighted(Pair([type |-> types[1], bearing |-> b0, offset |-> c0, distance |-> 10 * NM,
                 time |-> 0],
                [type |-> types[2], bearing |-> b1, offset |-> c1, distance |-> 8 * NM,
                 time |-> 6 * MINUTE])) :
     types \in {<<"rasp", "rasp">>, <<"rasp", "rakrp">>, <<"rakrp", "rasp">>},
     b0 \in {45 * DEG, 350 * DEG}, b1 \in {45 * DEG, 350 * DEG},
     c0 \in CapturedCourses, c1 \in CapturedCourses}

\* A target 4 nm abeam that has drifted north by the smallest distance the model
\* tells from none: it has just passed its CPA
DriftingTarget ==
  [SavedTarget(90, 4, 0, 90, 4, 6) EXCEPT !.bearing[1] = 90 * DEG - 1]

TargetRequests ==
  {[observation |-> o, ownCourse |-> own[1], ownSpeed |-> own[2]] :
     o \in TrueSightings \cup RelativeSightings \cup {DriftingTarget}, own \in OwnShips}

TargetInit ==
  /\ request \in {Some(r) : r \in TargetRequests}
  /\ answer = [phase |-> "asked", target |-> ObservedTarget(request[1].observation),
               result |-> EmptyResult]
  /\ store = createInitialState
  /\ call = Called("createInitialState", 0)
  /\ ops = 0

TargetNext == Observe

TargetSpec == TargetInit /\ [][TargetNext]_vars

(***************************************************************************)
(* normalizeAngle and normalizeAngleSigned in double precision.  The       *)
(* program's numbers are IEEE doubles; between 256 and 512 two neighbouring *)
(* doubles are 2^-44 apart.  An angle is written deg + sub * 2^-46 with    *)
(* deg a whole number of degrees and sub a small integer: a quarter of     *)
(* that spacing is the unit of sub.  The sum normalized + 360 is rounded   *)
(* to the nearest double, as the processor rounds it.                      *)
(***************************************************************************)
\* The angle deg + sub * 2^-46 degrees
Angle64(deg, sub) == [deg |-> deg, sub |-> sub]

Negative64(v) == v.deg < 0 \/ (v.deg = 0 /\ v.sub < 0)

Negate64(v) == Angle64(-v.deg, -v.sub)

\* The distance between neighbouring doubles at the magnitude of v >= 0, in units
\* of sub: 1 below 128 (every angle written here is a double), 2 up to 256, 4 up
\* to 512, 8 up to 1024
Spacing64(v) ==
  LET floor == IF v.sub < 0 THEN v.deg - 1 ELSE v.deg
  IN  IF floor >= 512 THEN 8 ELSE IF floor >= 256 THEN 4 ELSE IF floor >= 128 THEN 2 ELSE 1

\* v >= 0 rounded to the nearest double, ties to the even mantissa
Round64(v) ==
  LET s  == Spacing64(v)
      r  == v.sub % s
      lo == v.sub - r
  IN  Angle64(v.deg, IF 2 * r < s THEN lo
                     ELSE IF 2 * r > s THEN lo + s
                     ELSE IF (lo \div s) % 2 = 0 THEN lo ELSE lo + s)

\* angle % 360 of the language: exact, with the sign of the dividend
Remainder64(v) ==
  LET mod(w) == IF w.deg > 0 /\ w.deg % 360 = 0 /\ w.sub < 0
                THEN Angle64(360, w.sub)
                ELSE Angle64(w.deg % 360, w.sub)
  IN  IF Negative64(v) THEN Negate64(mod(Negate64(v))) ELSE mod(v)

\* normalizeAngle on doubles
normalizeAngle64(angle) ==
  LET normalized == Remainder64(angle)
  IN  IF Negative64(normalized)
      THEN Round64(Angle64(normalized.deg + 360, normalized.sub))
      ELSE normalized

\* v > 180
Above180(v) == v.deg > 180 \/ (v.deg = 180 /\ v.sub > 0)

\* normalizeAngleSigned on doubles
normalizeAngleSigned64(angle) ==
  LET normalized == normalizeAngle64(angle)
      lowered    == Angle64(normalized.deg - 360, normalized.sub)
  IN  IF Above180(normalized)
      THEN IF Negative64(lowered) THEN Negate64(Round64(Negate64(lowered)))
           ELSE Round64(lowered)
      ELSE normalized

\* The angles put to the two functions: around zero, the quarter circles and the
\* multiples of 360 on both sides, each with its neighbouring doubles
AngleInputs ==
  {v \in {Angle64(deg, sub) :
            deg \in {-720, -360, -270, -180, -90, -1, 0, 1, 90, 180, 270, 359, 360, 361, 720},
            sub \in -8 .. 8} :
     LET size == IF Negative64(v) THEN Negate64(v) ELSE v
     IN  v.sub % Spacing64(size) = 0}

AngleInit ==
  /\ request \in {Some(v) : v \in AngleInputs}
  /\ answer = [phase |-> "asked", result |-> request[1]]
  /\ store = createInitialState
  /\ call = Called("createInitialState", 0)
  /\ ops = 0

NormalizeAngle ==
  /\ answer.phase = "asked"
  /\ answer' = [phase |-> "normalized", result |-> normalizeAngle64(request[1])]
  /\ UNCHANGED <<store, call, ops, request>>

NormalizeAngleSigned ==
  /\ answer.phase = "asked"
  /\ answer' = [phase |-> "signed", result |-> normalizeAngleSigned64(request[1])]
  /\ UNCHANGED <<store, call, ops, request>>

AngleNext == NormalizeAngle \/ NormalizeAngleSigned

AngleSpec == AngleInit /\ [][AngleNext]_vars

(***************************************************************************)
(* The .rpt file format (src/utils/fileFormats.ts) and loadState           *)
(***************************************************************************)
\* The characters of the decimal digits; a text is the sequence of its characters
DigitChars == <<"0", "1", "2", "3", "4", "5", "6", "7", "8", "9">>

IsDigit(c) == \E k \in 1 .. 10 : DigitChars[k] = c

DigitValue(c) == (CHOOSE k \in 1 .. 10 : DigitChars[k] = c) - 1

\* The decimal digits of the natural number n
RECURSIVE Digits(_)
Digits(n) ==
  IF n < 10 THEN <<DigitChars[n + 1]>>
  ELSE Digits(n \div 10) \o <<DigitChars[(n % 10) + 1]>>

\* The decimals of r / unit for 0 <= r < unit, without trailing zeros
RECURSIVE FractionDigits(_, _)
FractionDigits(r, unit) ==
  IF r = 0 THEN << >>
  ELSE <<DigitChars[((r * 10) \div unit) + 1]>> \o FractionDigits((r * 10) % unit, unit)

\* `${v}` of the number kept as v / unit: its shortest decimal text
NumberToString(v, unit) ==
  LET size == IF v < 0 THEN -v ELSE v
      rest == size % unit
  IN  (IF v < 0 THEN <<"-">> ELSE << >>) \o Digits(size \div unit)
        \o (IF rest = 0 THEN << >> ELSE <<".">> \o FractionDigits(rest, unit))

\* v.toFixed(1) of the number kept as v / unit: rounded to one decimal, a tie upwards
toFixed1(v, unit) ==
  LET size   == IF v < 0 THEN -v ELSE v
      tenths == RoundDiv(size * 10, unit)
  IN  (IF v < 0 THEN <<"-">> ELSE << >>) \o Digits(tenths \div 10)
        \o <<".", DigitChars[(tenths % 10) + 1]>>

\* What parseInt and parseFloat return of a text that no number begins
NaN == <<"NaN">>

\* The first position from i on that holds no digit
RECURSIVE DigitsEnd(_, _)
DigitsEnd(text, i) ==
  IF i <= Len(text) /\ IsDigit(text[i]) THEN DigitsEnd(text, i + 1) ELSE i

\* The natural number written by text[from .. to - 1]
RECURSIVE NaturalOf(_, _, _)
NaturalOf(text, from, to) ==
  IF from >= to THEN 0
  ELSE NaturalOf(text, from, to - 1) * 10 + DigitValue(text[to - 1])

\* The value of the decimals text[from .. to - 1], the first of them worth weight
RECURSIVE DecimalsOf(_, _, _, _)
DecimalsOf(text, from, to, weight) ==
  IF from >= to THEN 0
  ELSE DigitValue(text[from]) * weight + DecimalsOf(text, from + 1, to, weight \div 10)

\* Where the digits of text begin: after a sign, if there is one
DigitsStart(text) == IF Len(text) > 0 /\ text[1] \in {"-", "+"} THEN 2 ELSE 1

\* parseInt(text): the integer that begins the text, what follows it ignored; in
\* units of 1 / unit
parseInt(text, unit) ==
  LET start == DigitsStart(text)
      end   == DigitsEnd(text, start)
      size  == NaturalOf(text, start, end) * unit
  IN  IF end = start THEN NaN
      ELSE IF text[1] = "-" THEN -size ELSE size

\* parseFloat(text): the decimal number that begins the text; in units of 1 / unit
parseFloat(text, unit) ==
  LET start  == DigitsStart(text)
      end    == DigitsEnd(text, start)
      point  == end <= Len(text) /\ text[end] = "."
      last   == IF point THEN DigitsEnd(text, end + 1) ELSE end
      size   == NaturalOf(text, start, end) * unit
                  + (IF point THEN DecimalsOf(text, end + 1, last, unit \div 10) ELSE 0)
  IN  IF end = start /\ (~point \/ last = end + 1) THEN NaN
      ELSE IF text[1] = "-" THEN -size ELSE size

\* 'true' and 'false'
TrueText == <<"t", "r", "u", "e">>

FalseText == <<"f", "a", "l", "s", "e">>

BooleanText(b) == IF b THEN TrueText ELSE FalseText

\* A line of the file in its parts: the name of the section of a header line
\* [name], or the key and the text of the value of a line key=value
HeaderLine(name) == [section |-> name, key |-> "", value |-> << >>]

KeyValueLine(key, value) == [section |-> "", key |-> key, value |-> value]

\* `Opponent ${targetLetters[i]}`
OpponentSection(i) ==
  <<"Opponent B", "Opponent C", "Opponent D", "Opponent E", "Opponent F">>[i + 1]

\* The keys of the two observations
TimeKey == Pair("Time(0)", "Time(1)")

SideBearingKey == Pair("SideBearing(0)", "SideBearing(1)")

RaSPKey == Pair("RaSP(0)", "RaSP(1)")

CourseSPKey == Pair("CourseSP(0)", "CourseSP(1)")

RaKrPKey == Pair("RaKrP(0)", "RaKrP(1)")

DistanceKey == Pair("Distance(0)", "Distance(1)")

\* The lines generateRptFile writes of observation k of a target
ObservationLines(target, k) ==
  <<KeyValueLine(TimeKey[k], NumberToString(target.time[k], MINUTE)),
    KeyValueLine(SideBearingKey[k], BooleanText(target.bearingType[k] = "rasp"))>>
  \o (IF target.bearingType[k] = "rasp"
      THEN <<KeyValueLine(RaSPKey[k], NumberToString(target.bearing[k], DEG)),
             KeyValueLine(CourseSPKey[k],
                          NumberToString(target.bearingCourseOffset[k], DEG))>>
      ELSE << >>)
  \o <<KeyValueLine(RaKrPKey[k], NumberToString(target.bearing[k], DEG)),
       KeyValueLine(DistanceKey[k], toFixed1(target.distance[k], NM))>>

\* The opponent sections of the targets from index i on, empty targets skipped
RECURSIVE OpponentLines(_, _)
OpponentLines(state, i) ==
  IF i >= RADAR_NR_TARGETS THEN << >>
  ELSE LET target == state.targets[i]
       IN  (IF target.distance[0] = 0 /\ target.distance[1] = 0 THEN << >>
            ELSE <<HeaderLine(OpponentSection(i))>>
                   \o ObservationLines(target, 0) \o ObservationLines(target, 1))
           \o OpponentLines(state, i + 1)

\* generateRptFile: the lines of the file. The line Range=rangeIndex is left out
\* with the table of ranges it indexes; own course is written as it is, the speed,
\* the distances and the maneuver values with one decimal
generateRptFile(state) ==
  <<HeaderLine("Radar"),
    KeyValueLine("Orientation", NumberToString(IF state.northUp THEN 0 ELSE 1, 1)),
    KeyValueLine("Heading", BooleanText(state.showHeading)),
    HeaderLine("Own Ship"),
    KeyValueLine("Course", NumberToString(state.ownCourse, DEG)),
    KeyValueLine("Speed", toFixed1(state.ownSpeed, NM))>>
  \o OpponentLines(state, 0)
  \o (IF state.selectedTarget >= 0 /\ state.maneuverType # ""
      THEN <<HeaderLine("Maneuver"),
             KeyValueLine("ByTime", BooleanText(state.mtimeSelected)),
             KeyValueLine("Time", NumberToString(state.mtime, MINUTE)),
             KeyValueLine("Distance", toFixed1(state.mdistance, NM)),
             KeyValueLine("Type",
                          NumberToString(IF state.maneuverType = "speed" THEN 1 ELSE 0, 1)),
             KeyValueLine("ByCPA", BooleanText(state.mcpaSelected)),
             KeyValueLine("CPA", toFixed1(state.mcpa, NM)),
             KeyValueLine("Course", toFixed1(state.ncourse, DEG)),
             KeyValueLine("Speed", toFixed1(state.nspeed, NM))>>
      ELSE << >>)

\* {}: the object without properties. An object is the function from the names of
\* its properties to their values
EmptyObject == [name \in {} |-> 0]

\* The sections of the lines from i on: a header opens an empty section, a key=value
\* line sets the key in the open section
RECURSIVE ParseLines(_, _, _, _)
ParseLines(lines, i, currentSection, sections) ==
  IF i > Len(lines) THEN sections
  ELSE LET line == lines[i]
       IN  IF line.section # ""
           THEN ParseLines(lines, i + 1, line.section,
                           (line.section :> EmptyObject) @@ sections)
           ELSE IF line.key # "" /\ currentSection # ""
           THEN ParseLines(lines, i + 1, currentSection,
                           (currentSection :>
                              ((line.key :> line.value) @@ sections[currentSection]))
                             @@ sections)
           ELSE ParseLines(lines, i + 1, currentSection, sections)

\* null
null == [null |-> TRUE]

\* The names convertRptToState gives the values of the two observations
time01 == Pair("time0", "time1")

bearingType01 == Pair("bearingType0", "bearingType1")

rasp01 == Pair("rasp0", "rasp1")

courseSP01 == Pair("courseSP0", "courseSP1")

rakrp01 == Pair("rakrp0", "rakrp1")

distance01 == Pair("distance0", "distance1")

\* convertRptToState: the partial state of the sections. A property is set when its
\* key is defined in its section
convertRptToState(sections) ==
  LET Defined(section, key) ==
        section \in DOMAIN sections /\ key \in DOMAIN sections[section]
      Integer(section, key, name, unit) ==
        IF Defined(section, key) THEN name :> parseInt(sections[section][key], unit)
        ELSE EmptyObject
      Decimal(section, key, name, unit) ==
        IF Defined(section, key) THEN name :> parseFloat(sections[section][key], unit)
        ELSE EmptyObject
      Flag(section, key, name) ==
        IF Defined(section, key) THEN name :> (sections[section][key] = TrueText)
        ELSE EmptyObject
      observation(section, k) ==
        Integer(section, TimeKey[k], time01[k], MINUTE)
          @@ (IF Defined(section, SideBearingKey[k])
              THEN bearingType01[k] :>
                     (IF sections[section][SideBearingKey[k]] = TrueText
                      THEN "rasp" ELSE "rakrp")
              ELSE EmptyObject)
          @@ Integer(section, RaSPKey[k], rasp01[k], DEG)
          @@ Integer(section, CourseSPKey[k], courseSP01[k], DEG)
          @@ Integer(section, RaKrPKey[k], rakrp01[k], DEG)
          @@ Decimal(section, DistanceKey[k], distance01[k], NM)
      opponent(i) ==
        IF OpponentSection(i) \notin DOMAIN sections THEN null
        ELSE ("index" :> i) @@ observation(OpponentSection(i), 0)
               @@ observation(OpponentSection(i), 1)
  IN  (IF Defined("Radar", "Orientation")
       THEN "northUp" :> (parseInt(sections["Radar"]["Orientation"], 1) = 0)
       ELSE EmptyObject)
      @@ Flag("Radar", "Heading", "showHeading")
      @@ Integer("Own Ship", "Course", "ownCourse", DEG)
      @@ Decimal("Own Ship", "Speed", "ownSpeed", NM)
      @@ ("targets" :> [i \in TargetIndices |-> opponent(i)])
      @@ Flag("Maneuver", "ByTime", "mtimeSelected")
      @@ Integer("Maneuver", "Time", "mtime", MINUTE)
      @@ Decimal("Maneuver", "Distance", "mdistance", NM)
      @@ (IF Defined("Maneuver", "Type")
          THEN "maneuverType" :>
                 (IF parseInt(sections["Maneuver"]["Type"], 1) = 1
                  THEN "speed" ELSE "course")
          ELSE EmptyObject)
      @@ Flag("Maneuver", "ByCPA", "mcpaSelected")
      @@ Decimal("Maneuver", "CPA", "mcpa", NM)
      @@ Decimal("Maneuver", "Course", "ncourse", DEG)
      @@ Decimal("Maneuver", "Speed", "nspeed", NM)

\* parseRptFile, content being the lines of the file
parseRptFile(content) == convertRptToState(ParseLines(content, 1, "", EmptyObject))

\* recalculateAllTargets on the targets a loaded state brought, from index from on:
\* a null target is passed over; calculateTarget first reads target.bearingType[0]
\* and throws a TypeError on a target without the property bearingType, which ends
\* the action
RECURSIVE RecalculateLoaded(_, _)
RecalculateLoaded(s, from) ==
  IF from >= RADAR_NR_TARGETS THEN [store |-> s, thrown |-> FALSE]
  ELSE IF s.targets[from] = null THEN RecalculateLoaded(s, from + 1)
  ELSE IF "bearingType" \notin DOMAIN s.targets[from] THEN [store |-> s, thrown |-> TRUE]
  ELSE RecalculateLoaded(recalculateTarget(s, from), from + 1)

\* loadState: Object.assign(this, state), recalculateAllTargets, modified = false;
\* the store it leaves and whether it threw
loadState(s, state) ==
  LET done == RecalculateLoaded(state @@ s, 0)
  IN  IF done.thrown THEN done
      ELSE [done EXCEPT !.store = [name \in DOMAIN done.store |->
                                     IF name = "modified" THEN FALSE
                                     ELSE done.store[name]]]

(***************************************************************************)
(* The study of the file format: a plot is exported, the file parsed and   *)
(* the parsed state loaded                                                 *)
(***************************************************************************)
\* Target observed by relative bearings (rasp), own ship's course then 015
RelativeBearingTarget ==
  [SavedTarget(30, 10, 0, 25, 8, 6) EXCEPT
     !.bearingType = Pair("rasp", "rasp"),
     !.bearingCourseOffset = Pair(15 * DEG, 15 * DEG)]

\* Target whose second distance, 8.25 nm, has two decimals
TwoDecimalsTarget == [SteadyBearingTarget EXCEPT !.distance = Pair(10 * NM, 8250)]

\* The fields of the state outside the plot: the display settings and the legacy
\* maneuver fields, which no action of the store writes
LegacyState(northUp, showHeading) ==
  [northUp |-> northUp, showHeading |-> showHeading,
   selectedTarget |-> 0, mtimeSelected |-> TRUE, mtime |-> 0, mdistance |-> 0,
   mcpaSelected |-> TRUE, mcpa |-> 0, ncourse |-> 0, nspeed |-> 0]

\* The plots of the study
RptPlots ==
  {[SavedCourseForCPA EXCEPT
      !.ownCourse = course, !.ownSpeed = speed,
      !.targets = [i \in TargetIndices |->
                     IF i = 0 THEN first ELSE IF i = 1 THEN second ELSE NoTarget]] :
     course \in {0, 45 * DEG, 359 * DEG},
     speed \in {0, 10 * NM, 12500},
     first \in {SteadyBearingTarget, RelativeBearingTarget, TwoDecimalsTarget, NoTarget},
     second \in {BowCrossingTarget, NoTarget}}

RptInit ==
  /\ \E plot \in RptPlots, northUp \in BOOLEAN, showHeading \in BOOLEAN :
       store = loadFromStorage(createInitialState, Some(plot))
                 @@ LegacyState(northUp, showHeading)
  /\ call = Called("loadFromStorage", 0)
  /\ ops = 0
  /\ request = None
  /\ answer = [phase |-> "plotted"]

\* The plot is exported: the file of the store's state
GenerateRptFile ==
  /\ answer.phase = "plotted"
  /\ answer' = [phase |-> "generated", exported |-> store,
                content |-> generateRptFile(store)]
  /\ UNCHANGED <<store, call, ops, request>>

\* The file is parsed
ParseRptFile ==
  /\ answer.phase = "generated"
  /\ answer' = [phase |-> "parsed", exported |-> answer.exported,
                state |-> parseRptFile(answer.content)]
  /\ UNCHANGED <<store, call, ops, request>>

\* The parsed state is loaded into the store
LoadState ==
  /\ answer.phase = "parsed"
  /\ LET done == loadState(store, answer.state)
     IN  /\ store' = done.store
         /\ answer' = [phase |-> "loaded", exported |-> answer.exported,
                       thrown |-> done.thrown]
  /\ call' = Called("loadState", 0)
  /\ UNCHANGED <<ops, request>>

RptNext == GenerateRptFile \/ ParseRptFile \/ LoadState

RptSpec == RptInit /\ [][RptNext]_vars

(***************************************************************************)
(* Properties of the calculation engine (checked under SolverSpec)         *)
(***************************************************************************)
\* The request of the solver study as calculateManeuverFull receives it
AskedParams == RequestParams(request[1], answer.target)

\* How calculateManeuverFull selects the solution of the asked CPA-goal request
AskedSelectionKind ==
  LET point == ManeuverPoint(AskedParams)
      tan   == Tangents(point.mpoint, point.mdistance, AskedParams.desiredCPA)
  IN  SelectionKind(PossibleSolutions(AskedParams, tan, point.mpoint))

\* The request was answered with a solution of the CPA goal
SolvedForCPA ==
  /\ answer.phase = "solved"
  /\ request[1].maneuverByCPA
  /\ answer.result.success

\* Two CPA distances agree when they differ by at most a tenth of a mile: the
\* fixed-point rounding of the model stays far below it
CPATolerance == NM \div 10

\* The perpendicular distance from own ship (the origin) to the line through the
\* returned maneuver point along the target's new relative motion, the target
\* keeping (KB, vB) and own ship taking the returned course or speed
AchievedCPA ==
  LET result    == answer.result
      course    == OrElse(result.requiredCourse, request[1].ownCourse)
      speed     == OrElse(result.requiredSpeed, request[1].ownSpeed)
      relative  == vectorSubtract(polarToCartesian(answer.target.KB, answer.target.vB),
                                  polarToCartesian(course, speed))
      mpoint    == result.mpoint[1]
      length    == vectorMagnitude(relative)
  IN  IF length = 0 THEN vectorMagnitude(mpoint)
      ELSE RoundDiv(Abs(crossProduct(mpoint, relative)), length)

\* C1: every successful answer to a CPA-goal request achieves the desired CPA:
\* with the returned course or speed adopted at the maneuver point and the target
\* keeping its true motion, the distance of the new relative-motion line from own
\* ship equals desiredCPA (reported as newCPA), whichever candidate was selected
C1_DesiredCPAAchieved ==
  SolvedForCPA =>
    /\ answer.result.newCPA = Some(request[1].desiredCPA)
    /\ Abs(AchievedCPA - request[1].desiredCPA) <= CPATolerance

\* The maneuver point's distance from the origin: maneuverDistance when it is given
\* by distance, the magnitude of the computed maneuver point when given by time
AskedPointDistance ==
  IF AskedParams.maneuverByTime THEN vectorMagnitude(ManeuverPoint(AskedParams).mpoint)
  ELSE AskedParams.maneuverDistance

\* The CPA-goal request has a maneuver point and asks for a CPA not below its distance
InfeasibleGoal ==
  /\ answer.phase = "solved"
  /\ request[1].maneuverByCPA
  /\ CheckPreconditions(AskedParams) = None
  /\ ManeuverPoint(AskedParams).error = None
  /\ request[1].desiredCPA >= AskedPointDistance

\* C3: a CPA-goal request whose desiredCPA is greater than or equal to the distance
\* of the maneuver point from the origin is answered with a failure that carries an
\* error reason, never with a solution, by distance and by time alike
C3_InfeasibleGoalFails ==
  InfeasibleGoal => ~answer.result.success /\ answer.result.error # None

\* C3 happens: a maneuver point given by time, 6 nm from own ship, and a CPA of 6 nm
C3_InfeasibleByTime ==
  /\ InfeasibleGoal
  /\ request[1].maneuverByTime
  /\ request[1].desiredCPA = AskedPointDistance
  /\ ~answer.result.success

\* C4: calculateManeuverFull succeeds only if the target has a CPA and vBr > 0, the
\* maneuver point of the active mode is positive, desiredCPA > 0 for a CPA goal and,
\* for a direct request, the new course / speed differs from own course / speed
C4_SuccessNeedsPreconditions ==
  (answer.phase = "solved" /\ answer.result.success) =>
    /\ answer.target.haveCPA /\ answer.target.vBr > 0
    /\ IF request[1].maneuverByTime THEN request[1].maneuverTime > 0
       ELSE request[1].maneuverDistance > 0
    /\ request[1].maneuverByCPA => request[1].desiredCPA > 0
    /\ (~request[1].maneuverByCPA /\ request[1].maneuverType = "course")
         => request[1].newCourse # request[1].ownCourse
    /\ (~request[1].maneuverByCPA /\ request[1].maneuverType = "speed")
         => request[1].newSpeed # request[1].ownSpeed

\* C4 happens: a direct speed request that differs from own speed succeeds
C4_DirectSpeedSolved ==
  /\ answer.phase = "solved"
  /\ answer.result.success
  /\ ~request[1].maneuverByCPA
  /\ request[1].maneuverType = "speed"
  /\ request[1].newSpeed # request[1].ownSpeed

\* The properties of a result that tell how it was obtained; all its other
\* properties are the numbers and points of the solution
ResultStatus(result) == [success |-> result.success, error |-> result.error]

\* C6: a result whose selection did not use a valid candidate (the least-deviation
\* invalid candidate, or the stop / steer-to-maneuver-point fallback) carries a flag
\* that tells it from a normal solution
C6_DegradedResultFlagged ==
  (SolvedForCPA /\ AskedSelectionKind # "valid") =>
    ResultStatus(answer.result) # [success |-> TRUE, error |-> None]

\* The observation inputs of a target
InputFields(target) ==
  [time |-> target.time, bearingType |-> target.bearingType, bearing |-> target.bearing,
   bearingCourseOffset |-> target.bearingCourseOffset, distance |-> target.distance]

AskedSolutions ==
  LET point == ManeuverPoint(AskedParams)
      tan   == Tangents(point.mpoint, point.mdistance, AskedParams.desiredCPA)
  IN  PossibleSolutions(AskedParams, tan, point.mpoint)

\* The fallback of the asked CPA-goal request
AskedFallback ==
  LET point == ManeuverPoint(AskedParams)
      tan   == Tangents(point.mpoint, point.mdistance, AskedParams.desiredCPA)
  IN  FallbackSolution(AskedParams, tan, point.mpoint)

\* The answer was made from solution sol: its course or speed and its points
AnsweredWith(sol) ==
  /\ answer.result.newCpaPoint = Some(sol.newCpa)
  /\ answer.result.xpoint = Some(sol.xpoint)
  /\ IF request[1].maneuverType = "course"
     THEN answer.result.requiredCourse = Some(sol.candidateCourse)
     ELSE answer.result.requiredSpeed = Some(sol.candidateSpeed)

\* The members of the sequence of solutions, each once
Members(solutions) == {solutions[k] : k \in 1..Len(solutions)}

\* C18: when some candidate is flagged valid the answer is made from a valid
\* candidate of minimum deviation among the valid ones; when candidates exist and
\* none is valid, from a candidate of minimum deviation among all; the fallback is
\* used only when there is no candidate
C18_SelectionPrefersValidLeastDeviation ==
  SolvedForCPA =>
    LET all   == Members(AskedSolutions)
        valid == {sol \in all : sol.solutionValid}
        from  == IF valid # {} THEN valid ELSE all
    IN  IF all = {} THEN AnsweredWith(AskedFallback)
        ELSE \E sol \in from :
               /\ \A other \in from : sol.deviation <= other.deviation
               /\ AnsweredWith(sol)

\* C18 happens: the answer is made from a valid candidate although a candidate that
\* is not valid has a smaller deviation
C18_ValidPreferredToSmallerDeviation ==
  /\ SolvedForCPA
  /\ \E sol \in Members(AskedSolutions), other \in Members(AskedSolutions) :
       /\ sol.solutionValid
       /\ ~other.solutionValid
       /\ other.deviation < sol.deviation
       /\ AnsweredWith(sol)

\* The answer is a solution, of the CPA goal or of the direct course / speed
AnsweredSolved == answer.phase = "solved" /\ answer.result.success

\* Own course and speed after the maneuver of the answer
CourseAfter == OrElse(answer.result.requiredCourse, AskedParams.ownCourse)

SpeedAfter == OrElse(answer.result.requiredSpeed, AskedParams.ownSpeed)

\* The clock time at the maneuver point: the second observation's time plus the
\* run from the second observation to the maneuver point at the observed
\* relative speed
ClockAtManeuverPoint ==
  LET target == answer.target
      mpoint == ManeuverPoint(AskedParams).mpoint
  IN  target.time[1]
        + (IF target.vBr > 0
           THEN MulDiv(cartesianToPolar(vectorSubtract(mpoint, target.sight[1])).distance,
                       60 * MINUTE, target.vBr)
           ELSE 0)

\* calculateCPA re-run from the maneuver point with the new relative motion
ResolvedCPA ==
  LET rel == NewRelativeMotion(answer.target, CourseAfter, SpeedAfter)
  IN  calculateCPA(ManeuverPoint(AskedParams).mpoint, rel.newKBr, rel.newVBr,
                   CourseAfter, ClockAtManeuverPoint)

\* calculateBowCrossing re-run from the maneuver point with the new relative motion
ResolvedBowCrossing ==
  LET rel == NewRelativeMotion(answer.target, CourseAfter, SpeedAfter)
  IN  calculateBowCrossing(ManeuverPoint(AskedParams).mpoint, rel.newKBr, rel.newVBr,
                           CourseAfter, ClockAtManeuverPoint)

\* Two angles agree when they differ by at most one degree around the circle
SameAngle(a, b) == Abs(normalizeAngleSigned(a - b)) <= DEG

\* Two times agree when they differ by at most one minute
SameTime(a, b) == Abs(a - b) <= MINUTE

\* C19: in every solution, of the CPA goal and of the direct course / speed alike,
\* the time and bearings of the new CPA and the new bow crossing are those that
\* calculateCPA and calculateBowCrossing give from the maneuver point with the new
\* relative motion and the clock time at the maneuver point (zero and "no
\* crossing" when the resolver gives nothing), up to a minute, a degree and a
\* tenth of a mile
C19_PostManeuverValuesFromResolvers ==
  AnsweredSolved =>
    LET cpa    == ResolvedCPA
        bc     == ResolvedBowCrossing
        result == answer.result
    IN  /\ SameTime(result.newTCPA[1], IF cpa = None THEN 0 ELSE cpa[1].TCPA)
        /\ SameTime(result.newTCPA_clock[1], IF cpa = None THEN 0 ELSE cpa[1].tCPA)
        /\ SameAngle(result.newPCPA[1], IF cpa = None THEN 0 ELSE cpa[1].PCPA)
        /\ SameAngle(result.newSPCPA[1], IF cpa = None THEN 0 ELSE cpa[1].SPCPA)
        /\ result.newHaveCrossing[1] = (bc # None)
        /\ Abs(result.newBCR[1] - (IF bc = None THEN 0 ELSE bc[1].BCR)) <= CPATolerance
        /\ SameTime(result.newBCT[1], IF bc = None THEN 0 ELSE bc[1].BCT)
        /\ SameTime(result.newBCt[1], IF bc = None THEN 0 ELSE bc[1].BCt)

\* The tangents calculateManeuverFull constructs for the asked request
AskedTangents ==
  LET point == ManeuverPoint(AskedParams)
  IN  Tangents(point.mpoint, point.mdistance, AskedParams.desiredCPA)

\* alpha = asin(desiredCPA / mdistance) of the asked request, in degrees
AskedAlpha == AsinDeg(AskedParams.desiredCPA, ManeuverPoint(AskedParams).mdistance)

\* The angle at the maneuver point from the direction to the origin to the direction
\* to the point p, signed, measured on the points
AngleAtManeuverPoint(p) ==
  LET mpoint == ManeuverPoint(AskedParams).mpoint
  IN  normalizeAngleSigned(cartesianToPolar(vectorSubtract(p, mpoint)).bearing
                           - cartesianToPolar(vectorScale(mpoint, -1, 1)).bearing)

\* The rounding of the model's arithmetic: two values agree when they differ by at
\* most a hundredth of a mile or knot, a tenth of a minute
Rounding == NM \div 100

\* Two angles agree when they differ by at most a tenth of a degree
AngleTolerance == DEG \div 10

\* C20: in a solution of the CPA goal both candidate new-CPA points lie at the
\* distance desiredCPA from the origin, the angle at the maneuver point between the
\* direction to the origin and the direction to each candidate is alpha (one
\* candidate on each side), the two candidate directions differ by 2 * alpha, and
\* the returned newCpaPoint is one of the two candidates; distances agree within a
\* hundredth of a mile and angles within a tenth of a degree
C20_TangentConstruction ==
  SolvedForCPA =>
    LET tan   == AskedTangents
        alpha == AskedAlpha
    IN  /\ \A i \in 0..1 :
             Abs(vectorMagnitude(tan.newCpa[i]) - AskedParams.desiredCPA) <= Rounding
        /\ Abs(AngleAtManeuverPoint(tan.newCpa[0]) - alpha) <= AngleTolerance
        /\ Abs(AngleAtManeuverPoint(tan.newCpa[1]) + alpha) <= AngleTolerance
        /\ Abs(normalizeAngleSigned(tan.kbr[0] - tan.kbr[1]) - 2 * alpha) <= AngleTolerance
        /\ Abs(normalizeAngleSigned(AngleAtManeuverPoint(tan.newCpa[0])
                                    - AngleAtManeuverPoint(tan.newCpa[1]))
               - 2 * alpha) <= AngleTolerance
        /\ answer.result.newCpaPoint \in {Some(tan.newCpa[0]), Some(tan.newCpa[1])}

\* C20 happens, Scenario B: a solution for desiredCPA 2 nm at the maneuver distance
\* 5 nm, where alpha = asin(2 / 5) = 23.58 degrees and the two candidates are
\* different points
C20_ScenarioB ==
  /\ SolvedForCPA
  /\ AskedParams.desiredCPA = 2 * NM
  /\ ManeuverPoint(AskedParams).mdistance = 5 * NM
  /\ AskedAlpha = 2358
  /\ AskedTangents.newCpa[0] # AskedTangents.newCpa[1]

\* The request asks for the maneuver point by time and its target has a CPA ahead
AskedByTime ==
  /\ answer.phase = "solved"
  /\ AskedParams.maneuverByTime
  /\ AskedParams.maneuverTime > 0
  /\ answer.target.haveCPA
  /\ answer.target.TCPA > 0

\* The second-observation position advanced toward the CPA point by the fraction
\* (maneuverTime - time of the second observation) / TCPA, whatever its sign or size
AdvancedByTime ==
  advancePosition(answer.target.sight[1], answer.target.cpa,
                  AskedParams.maneuverTime - answer.target.time[1], answer.target.TCPA)

\* C22: by time, for every maneuverTime > 0 the maneuver point is the position of
\* the second observation advanced toward the CPA point by the fraction
\* (maneuverTime - time[1]) / TCPA without clamping: behind the second observation
\* for an earlier maneuver time, beyond the CPA point for one after the CPA time
C22_ManeuverPointByTimeUnclamped ==
  AskedByTime =>
    /\ ManeuverPoint(AskedParams).mpoint = AdvancedByTime
    /\ (answer.result.success /\ answer.result.mpoint # None)
          => answer.result.mpoint = Some(AdvancedByTime)

\* The request asks for the maneuver point by distance and passes the early returns
AskedByDistance ==
  /\ answer.phase = "solved"
  /\ ~AskedParams.maneuverByTime
  /\ AskedParams.maneuverDistance > 0
  /\ CheckPreconditions(AskedParams) = None

\* The crossings of the line through the two observations with the circle of radius
\* maneuverDistance, as a set
AskedCrossings ==
  Members(circleLineCrossing(answer.target.sight[0], answer.target.sight[1],
                             AskedParams.maneuverDistance))

\* Signed minutes from the second observation to the point p along the relative motion
TravelTimeTo(p) ==
  calculateTravelTime(answer.target.sight[1], p, answer.target.KBr, answer.target.vBr)

\* The distance of the point p from the line through the two observations
OffTrack(p) ==
  LET d == vectorSubtract(answer.target.sight[1], answer.target.sight[0])
  IN  Abs(RoundDiv(crossProduct(vectorSubtract(p, answer.target.sight[1]), d),
                   vectorMagnitude(d)))

\* C23: by distance, the maneuver point is a crossing of the line through the two
\* observations with the circle of radius maneuverDistance (on the line and on the
\* circle within a hundredth of a mile), is not in the target's past, and is the
\* crossing of least travel time among those not in the past; the solver fails
\* with 'Maneuver point is in the past' exactly when there are crossings and all
\* are in the past, and with the not-achievable error exactly when there is none
C23_ManeuverPointByDistance ==
  AskedByDistance =>
    LET point  == ManeuverPoint(AskedParams)
        ahead  == {p \in AskedCrossings : TravelTimeTo(p) >= 0}
    IN  /\ (AskedCrossings = {}) <=>
              (point.error
                 = Some("Maneuver distance not achievable - line does not cross circle"))
        /\ (AskedCrossings # {} /\ ahead = {}) <=>
              (point.error = Some("Maneuver point is in the past"))
        /\ point.error # None => answer.result = Failure(point.error[1])
        /\ point.error = None =>
              /\ point.mpoint \in ahead
              /\ \A p \in ahead : TravelTimeTo(point.mpoint) <= TravelTimeTo(p)
              /\ Abs(vectorMagnitude(point.mpoint) - AskedParams.maneuverDistance)
                    <= Rounding
              /\ OffTrack(point.mpoint) <= Rounding
              /\ answer.result.mpoint \in {None, Some(point.mpoint)}

\* C23 happens: both crossings lie ahead of the target at different travel times
\* and the request is solved from the nearer one
C23_NearerOfTwoAhead ==
  /\ AskedByDistance
  /\ answer.result.success
  /\ \E p \in AskedCrossings, q \in AskedCrossings :
       /\ 0 <= TravelTimeTo(p)
       /\ TravelTimeTo(p) < TravelTimeTo(q)
       /\ answer.result.mpoint = Some(p)

\* A solution of the CPA goal by a change of course
SolvedByCourse == SolvedForCPA /\ AskedParams.maneuverType = "course"

\* The maneuver point bears from 90 to below 180 degrees relative to own course
ManeuverPointOnStarboardQuarter ==
  LET relative == (cartesianToPolar(ManeuverPoint(AskedParams).mpoint).bearing
                     - AskedParams.ownCourse) % (360 * DEG)
  IN  90 * DEG <= relative /\ relative < 180 * DEG

\* The turn from own course to the course c in [0, 360), to port when the maneuver
\* point bears from 90 to below 180 degrees relative to own course, else to starboard
PreferredTurn(c) ==
  IF ManeuverPointOnStarboardQuarter
  THEN (AskedParams.ownCourse - c) % (360 * DEG)
  ELSE (c - AskedParams.ownCourse) % (360 * DEG)

\* C24: in the course-change branch the preferred side is port exactly when the
\* maneuver point bears in [90, 180) degrees relative to own course, the deviation
\* of every candidate is its turn in the preferred direction, and a candidate is
\* flagged valid exactly when that turn is at most 180 degrees
C24_PreferredTurnAndValidity ==
  SolvedByCourse =>
    /\ (TurnDirection(AskedParams, ManeuverPoint(AskedParams).mpoint) = -1)
          <=> ManeuverPointOnStarboardQuarter
    /\ \A sol \in Members(AskedSolutions) :
          /\ sol.deviation = PreferredTurn(sol.candidateCourse)
          /\ sol.solutionValid <=> (PreferredTurn(sol.candidateCourse) <= 180 * DEG)

\* C24 happens: port is preferred and the answer is made from a candidate flagged
\* valid whose course lies to port of own course, more than 180 degrees away when
\* measured to starboard
C24_PortPreferred ==
  /\ SolvedByCourse
  /\ ManeuverPointOnStarboardQuarter
  /\ \E sol \in Members(AskedSolutions) :
       /\ sol.solutionValid
       /\ sol.deviation > 0
       /\ (sol.candidateCourse - AskedParams.ownCourse) % (360 * DEG) > 180 * DEG
       /\ AnsweredWith(sol)

\* A solution of the CPA goal by a change of speed
SolvedBySpeed == SolvedForCPA /\ AskedParams.maneuverType = "speed"

\* Two speeds agree when they differ by at most a tenth of a knot
SpeedTolerance == NM \div 10

\* How far the way p0_sub_own -> p -> first observation exceeds the straight segment
\* from p0_sub_own to the first observation: zero for a point on the segment
OffSegment(p) ==
  LET p0SubOwn == P0SubOwn(AskedParams)
      pos0     == answer.target.sight[0]
  IN  vectorMagnitude(vectorSubtract(p, p0SubOwn)) + vectorMagnitude(vectorSubtract(pos0, p))
        - vectorMagnitude(vectorSubtract(pos0, p0SubOwn))

\* C25: in the speed-change branch every candidate flagged valid has its crossing
\* on the segment from p0_sub_own to the first observation and a candidate speed
\* from 0 to the current own speed, and when a candidate is valid the answer is
\* made from a valid candidate of the highest speed
C25_ValidSpeedOnSegmentHighestChosen ==
  SolvedBySpeed =>
    LET valid == {sol \in Members(AskedSolutions) : sol.solutionValid}
    IN  /\ \A sol \in valid :
              /\ OffSegment(sol.xpoint) <= Rounding
              /\ 0 <= sol.candidateSpeed
              /\ sol.candidateSpeed <= AskedParams.ownSpeed + SpeedTolerance
        /\ valid # {} =>
              \E sol \in valid :
                /\ \A other \in valid : other.candidateSpeed <= sol.candidateSpeed
                /\ AnsweredWith(sol)

\* C25 happens: two candidates of different speeds are valid and the answer is
\* made from the faster one
C25_FasterOfTwoValid ==
  /\ SolvedBySpeed
  /\ \E sol \in Members(AskedSolutions), other \in Members(AskedSolutions) :
       /\ sol.solutionValid
       /\ other.solutionValid
       /\ other.candidateSpeed < sol.candidateSpeed
       /\ AnsweredWith(sol)

\* The values the requests of the study take in each field
RequestTimes == {r.maneuverTime : r \in Requests}

RequestDistances == {r.maneuverDistance : r \in Requests}

RequestCPAs == {r.desiredCPA : r \in Requests}

RequestCourses == {r.newCourse : r \in Requests}

RequestSpeeds == {r.newSpeed : r \in Requests}

\* The value after v in the set of numbers values, the least after the greatest:
\* stepping through a set this way visits all of it
NextValue(values, v) ==
  LET above == {w \in values : w > v}
      pick(from) == CHOOSE w \in from : \A u \in from : w <= u
  IN  IF above # {} THEN pick(above) ELSE pick(values)

\* The asked request with the fields that its mode does not read changed, one field
\* at a time: newCourse and newSpeed when the CPA is asked for, desiredCPA and the
\* new value of the other axis when it is not; maneuverDistance by time,
\* maneuverTime by distance
InactiveVariants ==
  LET params == AskedParams
  IN  (IF params.maneuverByCPA
       THEN {[params EXCEPT !.newCourse = NextValue(RequestCourses, params.newCourse)],
             [params EXCEPT !.newSpeed = NextValue(RequestSpeeds, params.newSpeed)]}
       ELSE {[params EXCEPT !.desiredCPA = NextValue(RequestCPAs, params.desiredCPA)],
             IF params.maneuverType = "course"
             THEN [params EXCEPT !.newSpeed = NextValue(RequestSpeeds, params.newSpeed)]
             ELSE [params EXCEPT !.newCourse = NextValue(RequestCourses, params.newCourse)]})
      \cup
      (IF params.maneuverByTime
       THEN {[params EXCEPT
                !.maneuverDistance = NextValue(RequestDistances, params.maneuverDistance)]}
       ELSE {[params EXCEPT !.maneuverTime = NextValue(RequestTimes, params.maneuverTime)]})

\* C29: the result of calculateManeuverFull depends only on the request fields of
\* the active mode: a call that differs from the asked one in a field the mode does
\* not read (newCourse or newSpeed when the CPA is asked for; desiredCPA and the
\* other axis' new value in the direct mode; maneuverDistance by time;
\* maneuverTime by distance) returns the same result
C29_InactiveFieldsWithoutInfluence ==
  answer.phase = "solved" =>
    \A other \in InactiveVariants : calculateManeuverFull(other) = answer.result

\* C29 happens: a direct request is solved while its desiredCPA is 0, a value that
\* is refused when the CPA is asked for, and its maneuverTime is set although the
\* maneuver point is given by distance
C29_DirectSolvedDespiteUnusedFields ==
  /\ answer.phase = "solved"
  /\ answer.result.success
  /\ ~AskedParams.maneuverByCPA
  /\ AskedParams.desiredCPA = 0
  /\ ~AskedParams.maneuverByTime
  /\ AskedParams.maneuverTime > 0

(***************************************************************************)
(* Properties of the store (checked under Spec)                            *)
(***************************************************************************)
\* The target the maneuver is planned against
ManeuverTarget == store.targets[store.maneuverTargetIndex]

\* maneuverResult holds a solution (the panel reads maneuverResult.newCPA)
Solved(s) == s.maneuverResult.newCPA # None

\* C2: a target whose observations are incomplete (a distance <= 0) or whose second
\* observation is not later than its first has neither a CPA nor a bow crossing
\* flagged valid: nothing stays flagged from earlier inputs
C2_InvalidTargetHasNoBlocks ==
  \A i \in TargetIndices :
    LET target == store.targets[i]
    IN  (\/ target.distance[0] <= 0
         \/ target.distance[1] <= 0
         \/ target.time[1] <= target.time[0])
          => ~target.haveCPA /\ ~target.haveCrossing

\* C5: a maneuver target flagged haveNewCPA and haveMpoint holds the points of a
\* successful result that carries them (mpoint, newCpaPoint, xpoint), in the
\* CPA-goal branches and in the direct branch alike, not the (0, 0) default
C5_SolvedCarriesPoints ==
  (ManeuverTarget.haveNewCPA /\ ManeuverTarget.haveMpoint) =>
    LET result == calculateManeuverFull(ManeuverParams(store, ManeuverTarget))
    IN  /\ result.success
        /\ result.mpoint # None /\ ManeuverTarget.mpoint = result.mpoint[1]
        /\ result.newCpaPoint # None /\ ManeuverTarget.newCpa = result.newCpaPoint[1]
        /\ result.xpoint # None /\ ManeuverTarget.xpoint = result.xpoint[1]

\* C7: a target other than the maneuver target is flagged haveNewCPA only if the
\* maneuverResult is a solution and the target itself has a CPA and vBr > 0
C7_SecondaryFlagNeedsValidData ==
  \A i \in TargetIndices \ {store.maneuverTargetIndex} :
    store.targets[i].haveNewCPA =>
      /\ Solved(store)
      /\ store.targets[i].haveCPA
      /\ store.targets[i].vBr > 0

\* The maneuverResult that the current inputs give: the maneuver target recalculated
\* from its observations, calculateManeuverFull applied to it and to the request
FreshManeuverResult(s) ==
  LET target == s.targets[s.maneuverTargetIndex]
      fresh  == Assign(target, calculateTarget(target, s.ownCourse, s.ownSpeed))
      result == calculateManeuverFull(ManeuverParams(s, fresh))
  IN  IF ~fresh.haveCPA
      THEN [EmptyManeuverResult EXCEPT !.error = Some("No valid target data")]
      ELSE IF result.success THEN SolvedManeuverResult(result)
      ELSE FailedManeuverResult(result)

\* The last action changed own course, own speed, an observation of the maneuver
\* target or a field of the maneuver request
MutatingCall ==
  \/ call.op \in {"setOwnCourse", "setOwnSpeed", "setManeuverTarget", "setManeuverByTime",
                  "setManeuverTime", "setManeuverDistance", "setManeuverType",
                  "setManeuverByCPA", "setDesiredCPA", "setNewCourse", "setNewSpeed"}
  \/ call.op = "updateTargetObservation" /\ call.index = store.maneuverTargetIndex

\* C8: after each action that changes own course, own speed, an observation of the
\* maneuver target or the maneuver request, maneuverResult is the outcome of
\* calculateManeuverFull for the current inputs, never one of earlier inputs
C8_ManeuverResultFresh ==
  MutatingCall => store.maneuverResult = FreshManeuverResult(store)

\* C8 happens: a new desired CPA of 1 nm was set and the result solves for it
C8_NewDesiredCPASolved ==
  /\ call.op = "setDesiredCPA"
  /\ store.desiredCPA = 1 * NM
  /\ store.maneuverResult.newCPA = Some(1 * NM)
  /\ store.maneuverResult.requiredCourse # None

\* C9: recalculateAllTargets invoked a second time with no input changed leaves the
\* targets' derived fields and flags and the maneuverResult as the first
\* invocation left them
C9_RecalculateIdempotent ==
  call.op \in {"loadFromStorage", "setOwnCourse", "setOwnSpeed"} =>
    LET again == recalculateAllTargets(store)
    IN  /\ again.targets = store.targets
        /\ again.maneuverResult = store.maneuverResult

\* The fields of a target that a solved maneuver fills in
PostManeuverFields(target) ==
  [mpoint |-> target.mpoint, newCpa |-> target.newCpa, xpoint |-> target.xpoint,
   newKBr |-> target.newKBr, newVBr |-> target.newVBr, newCPA |-> target.newCPA,
   delta |-> target.delta, newRaSP |-> target.newRaSP, newTCPA |-> target.newTCPA,
   newPCPA |-> target.newPCPA, newSPCPA |-> target.newSPCPA,
   newTCPA_clock |-> target.newTCPA_clock, newHaveCrossing |-> target.newHaveCrossing,
   newBCR |-> target.newBCR, newBCT |-> target.newBCT, newBCt |-> target.newBCt]

\* A step of the store other than resetPlot after which the inputs give no solution
\* while a solution was stored before it
FailureAfterSolved ==
  /\ Solved(store)
  /\ call'.op # "resetPlot"
  /\ ~Solved([store' EXCEPT !.maneuverResult = FreshManeuverResult(store')])

C11_ManeuverBlockIsUnit ==
  \A i \in TargetIndices : store.targets[i].haveMpoint = store.targets[i].haveNewCPA

\* The observations of the maneuver target are incomplete: a distance <= 0
IncompleteManeuverTarget ==
  ManeuverTarget.distance[0] <= 0 \/ ManeuverTarget.distance[1] <= 0

\* C21: after an action that runs calculateManeuver while the observations of the
\* maneuver target are incomplete, maneuverResult is the empty (unset) outcome: it
\* holds no error and no solution
C21_IncompleteTargetUnsetsResult ==
  (MutatingCall /\ IncompleteManeuverTarget) => store.maneuverResult = EmptyManeuverResult

\* C27: after setOwnCourse or setOwnSpeed the post-maneuver data and the flags of
\* every target other than the maneuver target are those that calculateManeuver
\* derives from the targets as recalculated under the new own course and speed,
\* whatever the maneuver target index: running calculateManeuver on the state the
\* action left changes no such target
C27_SecondaryFromNewOwnMotion ==
  call.op \in {"setOwnCourse", "setOwnSpeed"} =>
    LET again == calculateManeuver(store)
    IN  \A i \in TargetIndices \ {store.maneuverTargetIndex} :
          again.targets[i] = store.targets[i]

\* The derived fields and flags of a target
DerivedFields(target) ==
  [deltaTime |-> target.deltaTime, KBr |-> target.KBr, vBr |-> target.vBr,
   KB |-> target.KB, vB |-> target.vB, haveCPA |-> target.haveCPA, CPA |-> target.CPA,
   TCPA |-> target.TCPA, haveCrossing |-> target.haveCrossing, BCR |-> target.BCR,
   BCT |-> target.BCT, haveNewCPA |-> target.haveNewCPA, haveMpoint |-> target.haveMpoint]

\* What the store derives: the derived fields of every target and the maneuverResult
DerivedState(s) ==
  [targets |-> [i \in TargetIndices |-> DerivedFields(s.targets[i])],
   maneuverResult |-> s.maneuverResult]

\* The store after the history that loads the inputs of s into a new store
LoadedAfresh(s) == loadFromStorage(createInitialState, Some(extractPersistableState(s)))

\* C28: the derived state is a function of the current inputs: the history that
\* led to the store and the history that loads the same own ship, observations
\* and maneuver request into a new store end with the same derived fields and
\* flags of every target and the same maneuverResult (compared after the actions
\* that recalculate the maneuver, so that both histories have calculated one)
C28_DerivedFromCurrentInputs ==
  (MutatingCall \/ call.op = "loadFromStorage") =>
    DerivedState(store) = DerivedState(LoadedAfresh(store))

(***************************************************************************)
(* Properties of calculateTarget (checked under TargetSpec)                *)
(***************************************************************************)
\* calculateTarget has run on the drawn observations
Observed == answer.phase = "observed"

\* C12: for an observation entered as a relative bearing the true bearing is
\* (bearing + bearingCourseOffset) mod 360 for every captured course, 000 included,
\* whatever own course is now
C12_RelativeBearingUsesCapturedCourse ==
  Observed =>
    \A i \in 0..1 :
      answer.target.bearingType[i] = "rasp" =>
        answer.target.rakrp[i] =
          (answer.target.bearing[i] + answer.target.bearingCourseOffset[i]) % (360 * DEG)

\* The projection of the vector from the second sighting to own ship onto the
\* direction of relative motion
ProjectionToOwn ==
  Project(vectorSubtract(Origin, answer.target.sight[1]), answer.target.KBr)

C14_BowCrossingAheadAndFuture ==
  (Observed /\ answer.target.haveCrossing) =>
    /\ normalizeAngle(answer.target.KBr - request[1].ownCourse) \notin {0, 180 * DEG}
    /\ Project(answer.target.cross, request[1].ownCourse) > 0
    /\ Project(vectorSubtract(answer.target.cross, answer.target.sight[1]),
               answer.target.KBr) > 0
    /\ answer.target.BCR > 0
    /\ answer.target.BCT > 0
    /\ answer.target.BCt > answer.target.time[1]

\* C14 happens: the target drawing ahead from 045 to 040 degrees crosses the bow of
\* own ship heading north
C14_CrossingAhead ==
  /\ Observed
  /\ request[1].observation = BowCrossingTarget
  /\ request[1].ownCourse = 0
  /\ answer.target.haveCrossing
  /\ answer.target.cross.x = 0
  /\ answer.target.cross.y > 0

\* C15: whenever calculateTarget reports haveCPA, the CPA distance is at most the
\* target's distance at the first observation and at most its distance at the second
C15_CPAWithinObservedDistances ==
  (Observed /\ answer.target.haveCPA) =>
    /\ answer.target.CPA <= answer.target.distance[0]
    /\ answer.target.CPA <= answer.target.distance[1]

\* C15 happens: a closing target whose CPA is neither zero nor its present range
C15_CPABelowBothDistances ==
  /\ Observed
  /\ answer.target.haveCPA
  /\ answer.target.CPA > 0
  /\ answer.target.CPA < answer.target.distance[1]
  /\ answer.target.distance[1] < answer.target.distance[0]

\* Both observations are true bearings on the same bearing line, the target closing:
\* d1 > d2 > 0 and dt > 0
SteadyBearingClosing ==
  /\ Observed
  /\ answer.target.bearingType = Pair("rakrp", "rakrp")
  /\ answer.target.bearing[0] = answer.target.bearing[1]
  /\ answer.target.distance[0] > answer.target.distance[1]
  /\ answer.target.distance[1] > 0
  /\ answer.target.time[1] > answer.target.time[0]

\* (d1 - d2) / dt * 60
ClosingSpeed ==
  MulDiv(answer.target.distance[0] - answer.target.distance[1], 60 * MINUTE,
         answer.target.time[1] - answer.target.time[0])

\* C16: on a steady bearing with d1 > d2 > 0 and dt > 0 calculateTarget gives
\* vBr = (d1 - d2) / dt * 60 along the bearing line toward own ship, haveCPA,
\* CPA = 0 and TCPA = d2 / vBr * 60
C16_SteadyBearingIsCollisionCourse ==
  SteadyBearingClosing =>
    /\ Abs(answer.target.vBr - ClosingSpeed) <= Rounding
    /\ answer.target.KBr = normalizeAngle(answer.target.bearing[1] + 180 * DEG)
    /\ answer.target.haveCPA
    /\ answer.target.CPA <= Rounding
    /\ Abs(answer.target.TCPA
             - MulDiv(answer.target.distance[1], 60 * MINUTE, ClosingSpeed)) <= Rounding

\* C16 happens: bearing 045, 10 nm then 8 nm, 6 minutes apart: 20 kn toward own
\* ship, CPA 0 in 24 minutes
C16_ScenarioA ==
  /\ SteadyBearingClosing
  /\ request[1].observation = SteadyBearingTarget
  /\ Abs(answer.target.vBr - 20 * NM) <= Rounding
  /\ answer.target.KBr = 225 * DEG
  /\ answer.target.haveCPA
  /\ answer.target.CPA <= Rounding
  /\ Abs(answer.target.TCPA - 24 * MINUTE) <= Rounding


(***************************************************************************)
(* Properties of normalizeAngle (checked under AngleSpec)                  *)
(***************************************************************************)
\* C26: normalizeAngle returns a value in [0, 360) for every input, negative, zero,
\* a multiple of 360 or above 360, and normalizeAngleSigned a value in (-180, 180]
C26_AnglesNormalized ==
  LET result == answer.result
  IN  /\ answer.phase = "normalized" =>
            /\ ~Negative64(result)
            /\ result.deg < 360 \/ (result.deg = 360 /\ result.sub < 0)
      /\ answer.phase = "signed" =>
            /\ ~Above180(result)
            /\ result.deg > -180 \/ (result.deg = -180 /\ result.sub > 0)


(***************************************************************************)
(* Properties of the .rpt file format (checked under RptSpec)              *)
(***************************************************************************)
\* What the store and calculateTarget read of a target as property name, None when
\* the target is null or has no such property
Property(target, name) ==
  IF target # null /\ name \in DOMAIN target THEN Some(target[name]) ELSE None

\* The distance d with one decimal, as the file keeps it
OneDecimal(d) == RoundDiv(d * 10, NM) * (NM \div 10)

\* generateRptFile skips a target whose two distances are 0
EmptyTarget(target) == target.distance[0] = 0 /\ target.distance[1] = 0

\* C30: round trip of the .rpt format: parseRptFile(generateRptFile(state)), once
\* passed to loadState, leaves the store with the same own course and speed and,
\* for every non-empty target, the same time, bearingType, bearing,
\* bearingCourseOffset and distance of both observations (the distances to one
\* decimal), and the recalculation after loading succeeds
C30_RptRoundTrip ==
  answer.phase = "loaded" =>
    LET exported == answer.exported
    IN  /\ store.ownCourse = exported.ownCourse
        /\ store.ownSpeed = exported.ownSpeed
        /\ ~answer.thrown
        /\ \A i \in TargetIndices :
             ~EmptyTarget(exported.targets[i]) =>
               /\ Property(store.targets[i], "time") = Some(exported.targets[i].time)
               /\ Property(store.targets[i], "bearingType")
                    = Some(exported.targets[i].bearingType)
               /\ Property(store.targets[i], "bearing")
                    = Some(exported.targets[i].bearing)
               /\ Property(store.targets[i], "bearingCourseOffset")
                    = Some(exported.targets[i].bearingCourseOffset)
               /\ Property(store.targets[i], "distance")
                    = Some([k \in 0 .. 1 |-> OneDecimal(exported.targets[i].distance[k])])

=============================================================================
